---- MODULE Spec2Model ----
(***************************************************************************)
(* State-machine model of the lockc kernel-side decision engine:           *)
(*   - the BPF maps (processes, containers, runtimes, six path maps),      *)
(*   - the lineage tracker handle_new_process, run from the                *)
(*     sched_process_fork tracepoint and the task_alloc LSM hook,          *)
(*   - the policy resolver get_policy_level,                               *)
(*   - the LSM programs syslog_audit, mount_audit, setuid_audit and        *)
(*     open_audit with the path matcher check_paths.                       *)
(* A BPF map is a function whose domain is the set of keys that have a     *)
(* row.  A byte string is a sequence of byte values, 0 being NUL.          *)
(***************************************************************************)
EXTENDS Integers, Sequences, FiniteSets, TLC

VARIABLES
    processes,   \* BPF map  pid -> struct process {container_id}
    containers,  \* BPF map  container id -> struct container {policy_level}
    runtimes,    \* BPF map  u32 hash of a runtime comm -> u32
    paths,       \* the six path maps: map name -> rows {key, path[PATH_LEN]} in iteration order
    trk,         \* in-flight handle_new_process invocations, one per program
    last,        \* outcome of the latest LSM decision program invocation
    hist,        \* bookkeeping about tracker writes (observation only)
    tasks        \* the tasks of the system and their descent (observation only)

vars == <<processes, containers, runtimes, paths, trk, last, hist, tasks>>

-----------------------------------------------------------------------------
(* Program constants *)

EPERM == 1
EFAULT == 14
MOUNT_TYPE_LEN == 5
PATH_LEN == 64

POLICY_LEVEL_LOOKUP_ERR == -2
POLICY_LEVEL_NOT_FOUND == -1
POLICY_LEVEL_RESTRICTED == 0
POLICY_LEVEL_BASELINE == 1
POLICY_LEVEL_PRIVILEGED == 2

\* The tiers a container row can carry.
Tiers == {POLICY_LEVEL_RESTRICTED, POLICY_LEVEL_BASELINE, POLICY_LEVEL_PRIVILEGED}

\* The bpf_map_update_elem flag handle_new_process passes: create or replace.
BPF_ANY == 0

-----------------------------------------------------------------------------
(* Bounds of the model *)

MaxPid == 2        \* pids 1..MaxPid in the lineage specifications
MaxCid == 2        \* container ids 1..MaxCid in the lineage specifications
MaxHookPid == 1    \* pids the decision programs run for
MaxHookCid == 1    \* container ids registered in the hook specification

Pids == 1..MaxPid
Cids == 1..MaxCid
HookPids == 1..MaxHookPid
HookCids == 1..MaxHookCid

-----------------------------------------------------------------------------
(* BPF map helpers *)

EmptyMap == [k \in {} |-> 0]

\* bpf_map_lookup_elem: NULL (no row) or a pointer to the row's value.
HasRow(m, k) == k \in DOMAIN m

MapPut(m, k, v) == [x \in (DOMAIN m) \cup {k} |-> IF x = k THEN v ELSE m[x]]

MapDel(m, k) == [x \in (DOMAIN m) \ {k} |-> m[x]]

-----------------------------------------------------------------------------
(* Byte strings.  47 is '/', 97 'a', 98 'b', 120 'x'. *)

Zeros(n) == [i \in 1..n |-> 0]

\* A fixed-width array of width n holding s, zero padded (struct accessed_path).
Pad(s, n) == IF Len(s) >= n THEN SubSeq(s, 1, n) ELSE s \o Zeros(n - Len(s))

STR_ROOT == <<47>>
STR_A == <<47, 97>>
STR_AB == <<47, 97, 47, 98>>
STR_AX == <<47, 97, 47, 120>>
STR_B == <<47, 98>>
STR_BIND == <<98, 105, 110, 100>>
STR_TMPFS == <<116, 109, 112, 102, 115>>
STR_BINDFS == <<98, 105, 110, 100, 102, 115>>
\* A path of PATH_LEN characters: with its NUL it needs PATH_LEN + 1 bytes.
STR_LONG == STR_AB \o [i \in 1..(PATH_LEN - 4) |-> 120]

\* Kernel pointers handed to a program: NULL, a pointer whose read faults, or a
\* pointer to a NUL-terminated string.
NullPtr == [kind |-> "null", s |-> <<>>]
FaultPtr == [kind |-> "fault", s |-> <<>>]
StrPtr(s) == [kind |-> "str", s |-> s]

RECURSIVE strlen_from(_, _, _)
strlen_from(s, max_len, i) ==
    IF i >= max_len THEN i
    ELSE IF s[i + 1] = 0 THEN i
    ELSE strlen_from(s, max_len, i + 1)

\* strlen(s, max_len): index of the first NUL of s, bounded by max_len.
strlen(s, max_len) == strlen_from(s, max_len, 0)

RECURSIVE strcmp_from(_, _, _, _)
strcmp_from(s1, s2, n, i) ==
    IF i >= n THEN 0
    ELSE IF s1[i + 1] # s2[i + 1] THEN (IF s1[i + 1] < s2[i + 1] THEN -1 ELSE 1)
    ELSE IF s1[i + 1] = 0 THEN 0
    ELSE strcmp_from(s1, s2, n, i + 1)

\* strcmp(s1, s2, n): 0 iff s1 and s2 agree byte for byte on their first n
\* bytes (or up to a common NUL before that).
strcmp(s1, s2, n) == strcmp_from(s1, s2, n, 0)

\* bpf_probe_read_kernel_str(dst, size, src): copies at most size - 1 bytes of
\* the string and NUL-terminates it; negative on a faulting pointer.
bpf_probe_read_kernel_str(size, src) ==
    IF src.kind # "str"
    THEN [err |-> -EFAULT, buf |-> Zeros(size)]
    ELSE LET n == IF Len(src.s) < size - 1 THEN Len(src.s) ELSE size - 1
         IN [err |-> n + 1, buf |-> Pad(SubSeq(src.s, 1, n), size)]

\* bpf_d_path(path, buf, sz): renders the absolute path with its NUL into buf;
\* negative when the path cannot be rendered or does not fit into sz bytes.
bpf_d_path(file, sz) ==
    IF file.kind # "str" \/ Len(file.s) + 1 > sz
    THEN [err |-> -1, buf |-> Zeros(sz)]
    ELSE [err |-> Len(file.s) + 1, buf |-> Pad(file.s, sz)]

-----------------------------------------------------------------------------
(* Path maps.  lockc.bpf.c names them ap_mnt_restr (allowed_paths_mount_   *)
(* restricted), ap_mnt_base, ap_acc_restr (allowed_paths_access_restricted),*)
(* ap_acc_base, dp_acc_restr (denied_paths_access_restricted), dp_acc_base. *)
(* The programs only iterate over them, so a path map is kept as the       *)
(* sequence of its rows in the map's iteration order.                      *)

PathMaps == {"ap_mnt_restr", "ap_mnt_base", "ap_acc_restr", "ap_acc_base",
             "dp_acc_restr", "dp_acc_base"}

ap_mnt_restr == paths["ap_mnt_restr"]
ap_mnt_base == paths["ap_mnt_base"]
ap_acc_restr == paths["ap_acc_restr"]
ap_acc_base == paths["ap_acc_base"]
dp_acc_restr == paths["dp_acc_restr"]
dp_acc_base == paths["dp_acc_base"]

\* struct accessed_path: a fixed-width, zero padded byte string.
accessed_path(k, s) == [key |-> k, path |-> Pad(s, PATH_LEN)]

-----------------------------------------------------------------------------
(* Policy resolver *)

\* get_policy_level looking the container up under the pid.
get_policy_level_by_pid(pid) ==
    IF ~HasRow(processes, pid) THEN POLICY_LEVEL_NOT_FOUND
    ELSE IF ~HasRow(containers, pid) THEN POLICY_LEVEL_LOOKUP_ERR
    ELSE containers[pid]

get_policy_level(pid) ==
    IF ~HasRow(processes, pid) THEN POLICY_LEVEL_NOT_FOUND
    ELSE IF ~HasRow(containers, processes[pid]) THEN POLICY_LEVEL_LOOKUP_ERR
    ELSE containers[processes[pid]]

-----------------------------------------------------------------------------
(* Path matcher *)

\* check_paths without the test that skips an empty row.
check_paths_no_skip(allowed_path, path) ==
    LET allowed_path_len == strlen(allowed_path.path, PATH_LEN)
    IN IF strcmp(allowed_path.path, path, allowed_path_len) = 0 THEN 1 ELSE 0

\* check_paths: 1 when the row's path is a non-empty prefix of the probe (stop
\* iterating), 0 otherwise (continue).
check_paths(allowed_path, path) ==
    LET allowed_path_len == strlen(allowed_path.path, PATH_LEN)
    IN IF allowed_path_len < 1 THEN 0
       ELSE IF strcmp(allowed_path.path, path, allowed_path_len) = 0 THEN 1
       ELSE 0

RECURSIVE for_each_from(_, _, _)
for_each_from(map, path, i) ==
    IF i > Len(map) THEN [found |-> FALSE, visits |-> Len(map)]
    ELSE IF check_paths(map[i], path) = 1 THEN [found |-> TRUE, visits |-> i]
    ELSE for_each_from(map, path, i + 1)

\* bpf_for_each_map_elem(&map, check_paths, &cb, 0): calls check_paths on the
\* rows one after the other until it returns 1; cb.found tells whether it did.
bpf_for_each_map_elem(map, path) == for_each_from(map, path, 1)

-----------------------------------------------------------------------------
(* LSM decision programs.  Each returns the verdict (ret), the value of the *)
(* local ret on reaching the out label (cur) and the path maps consulted.   *)

\* out with the previous result ignored.
out_ignoring_prev(ret_prev, ret) == ret

\* out returning the stronger (the lower) of the two verdicts.
out_strongest(ret_prev, ret) == IF ret_prev < ret THEN ret_prev ELSE ret

\* The out label: a previous program's non-zero result is handed on.
out(ret_prev, ret) == IF ret_prev # 0 THEN ret_prev ELSE ret

Result(ret_prev, cur, consulted) ==
    [ret |-> out(ret_prev, cur), cur |-> cur, consulted |-> consulted]

\* syslog_audit letting the BASELINE tier through.
syslog_audit_baseline_allow(pid, type, ret_prev) ==
    LET policy_level == get_policy_level(pid)
        ret == CASE policy_level = POLICY_LEVEL_LOOKUP_ERR -> -EPERM
                 [] policy_level = POLICY_LEVEL_RESTRICTED -> -EPERM
                 [] OTHER -> 0
    IN Result(ret_prev, ret, <<>>)

\* syslog_audit denying a pid that has no row.
syslog_audit_not_found_deny(pid, type, ret_prev) ==
    LET policy_level == get_policy_level(pid)
        ret == CASE policy_level = POLICY_LEVEL_PRIVILEGED -> 0
                 [] OTHER -> -EPERM
    IN Result(ret_prev, ret, <<>>)

syslog_audit(pid, type, ret_prev) ==
    LET policy_level == get_policy_level(pid)
        ret == CASE policy_level = POLICY_LEVEL_LOOKUP_ERR -> -EPERM
                 [] policy_level = POLICY_LEVEL_NOT_FOUND -> 0
                 [] policy_level = POLICY_LEVEL_RESTRICTED -> -EPERM
                 [] policy_level = POLICY_LEVEL_BASELINE -> -EPERM
                 [] policy_level = POLICY_LEVEL_PRIVILEGED -> 0
                 [] OTHER -> 0
    IN Result(ret_prev, ret, <<>>)

\* The arm of the second switch of mount_audit that is entered: the switch has
\* the cases RESTRICTED and BASELINE and no default (defaut: is a label inside
\* the body, after the break of the last case: no case falls into it and no
\* goto names it), so for any other value the body is skipped.
mount_switch_arm(policy_level) ==
    CASE policy_level = POLICY_LEVEL_RESTRICTED -> "restricted"
      [] policy_level = POLICY_LEVEL_BASELINE -> "baseline"
      [] OTHER -> "none"

\* The outcome r of an invocation that went through the second switch.
Reached(r, arm) ==
    [ret |-> r.ret, cur |-> r.cur, consulted |-> r.consulted, arm |-> arm]

\* mount_check looking in the baseline allowlist for every policed tier.
mount_check_baseline_list(policy_level, dev_name_safe, ret_prev) ==
    LET arm == mount_switch_arm(policy_level)
    IN CASE arm \in {"restricted", "baseline"} ->
              IF bpf_for_each_map_elem(ap_mnt_base, dev_name_safe).found
              THEN Reached(Result(ret_prev, 0, <<"ap_mnt_base">>), arm)
              ELSE Reached(Result(ret_prev, -EPERM, <<"ap_mnt_base">>), arm)
         [] OTHER -> Reached(Result(ret_prev, -EPERM, <<>>), arm)

\* The second switch of mount_audit: the allowlist of the caller's tier.
mount_check(policy_level, dev_name_safe, ret_prev) ==
    LET arm == mount_switch_arm(policy_level)
    IN CASE arm = "restricted" ->
              IF bpf_for_each_map_elem(ap_mnt_restr, dev_name_safe).found
              THEN Reached(Result(ret_prev, 0, <<"ap_mnt_restr">>), arm)
              ELSE Reached(Result(ret_prev, -EPERM, <<"ap_mnt_restr">>), arm)
         [] arm = "baseline" ->
              IF bpf_for_each_map_elem(ap_mnt_base, dev_name_safe).found
              THEN Reached(Result(ret_prev, 0, <<"ap_mnt_base">>), arm)
              ELSE Reached(Result(ret_prev, -EPERM, <<"ap_mnt_base">>), arm)
         [] OTHER -> Reached(Result(ret_prev, -EPERM, <<>>), arm)

\* mount_audit denying a mount that has no type.
mount_audit_null_type_deny(pid, dev_name, type, ret_prev) ==
    LET policy_level == get_policy_level(pid)
        type_bind == Pad(STR_BIND, MOUNT_TYPE_LEN)
        type_read == bpf_probe_read_kernel_str(MOUNT_TYPE_LEN, type)
        dev_read == bpf_probe_read_kernel_str(PATH_LEN, dev_name)
    IN CASE policy_level = POLICY_LEVEL_LOOKUP_ERR -> Result(ret_prev, -EPERM, <<>>)
         [] policy_level = POLICY_LEVEL_NOT_FOUND -> Result(ret_prev, 0, <<>>)
         [] policy_level = POLICY_LEVEL_PRIVILEGED -> Result(ret_prev, 0, <<>>)
         [] OTHER ->
              IF type.kind = "null" THEN Result(ret_prev, -EPERM, <<>>)
              ELSE IF type_read.err < 0 THEN Result(ret_prev, -EFAULT, <<>>)
              ELSE IF strcmp(type_read.buf, type_bind, MOUNT_TYPE_LEN) # 0
                   THEN Result(ret_prev, 0, <<>>)
              ELSE IF dev_name.kind = "null" THEN Result(ret_prev, -EFAULT, <<>>)
              ELSE IF dev_read.err < 0 THEN Result(ret_prev, -EFAULT, <<>>)
              ELSE mount_check(policy_level, dev_read.buf, ret_prev)

\* mount_audit letting a bind mount with no source through.
mount_audit_null_source_allow(pid, dev_name, type, ret_prev) ==
    LET policy_level == get_policy_level(pid)
        type_bind == Pad(STR_BIND, MOUNT_TYPE_LEN)
        type_read == bpf_probe_read_kernel_str(MOUNT_TYPE_LEN, type)
        dev_read == bpf_probe_read_kernel_str(PATH_LEN, dev_name)
    IN CASE policy_level = POLICY_LEVEL_LOOKUP_ERR -> Result(ret_prev, -EPERM, <<>>)
         [] policy_level = POLICY_LEVEL_NOT_FOUND -> Result(ret_prev, 0, <<>>)
         [] policy_level = POLICY_LEVEL_PRIVILEGED -> Result(ret_prev, 0, <<>>)
         [] OTHER ->
              IF type.kind = "null" THEN Result(ret_prev, 0, <<>>)
              ELSE IF type_read.err < 0 THEN Result(ret_prev, -EFAULT, <<>>)
              ELSE IF strcmp(type_read.buf, type_bind, MOUNT_TYPE_LEN) # 0
                   THEN Result(ret_prev, 0, <<>>)
              ELSE IF dev_name.kind = "null" THEN Result(ret_prev, 0, <<>>)
              ELSE IF dev_read.err < 0 THEN Result(ret_prev, -EFAULT, <<>>)
              ELSE mount_check(policy_level, dev_read.buf, ret_prev)

\* mount_audit whose first switch leaves the PRIVILEGED case with a break.
mount_audit_privileged_policed(pid, dev_name, type, ret_prev) ==
    LET policy_level == get_policy_level(pid)
        type_bind == Pad(STR_BIND, MOUNT_TYPE_LEN)
        type_read == bpf_probe_read_kernel_str(MOUNT_TYPE_LEN, type)
        dev_read == bpf_probe_read_kernel_str(PATH_LEN, dev_name)
    IN CASE policy_level = POLICY_LEVEL_LOOKUP_ERR -> Result(ret_prev, -EPERM, <<>>)
         [] policy_level = POLICY_LEVEL_NOT_FOUND -> Result(ret_prev, 0, <<>>)
         [] OTHER ->
              IF type.kind = "null" THEN Result(ret_prev, 0, <<>>)
              ELSE IF type_read.err < 0 THEN Result(ret_prev, -EFAULT, <<>>)
              ELSE IF strcmp(type_read.buf, type_bind, MOUNT_TYPE_LEN) # 0
                   THEN Result(ret_prev, 0, <<>>)
              ELSE IF dev_name.kind = "null" THEN Result(ret_prev, -EFAULT, <<>>)
              ELSE IF dev_read.err < 0 THEN Result(ret_prev, -EFAULT, <<>>)
              ELSE mount_check(policy_level, dev_read.buf, ret_prev)

mount_audit(pid, dev_name, type, ret_prev) ==
    LET policy_level == get_policy_level(pid)
        type_bind == Pad(STR_BIND, MOUNT_TYPE_LEN)
        type_read == bpf_probe_read_kernel_str(MOUNT_TYPE_LEN, type)
        dev_read == bpf_probe_read_kernel_str(PATH_LEN, dev_name)
    IN CASE policy_level = POLICY_LEVEL_LOOKUP_ERR -> Result(ret_prev, -EPERM, <<>>)
         [] policy_level = POLICY_LEVEL_NOT_FOUND -> Result(ret_prev, 0, <<>>)
         [] policy_level = POLICY_LEVEL_PRIVILEGED -> Result(ret_prev, 0, <<>>)
         [] OTHER ->
              IF type.kind = "null" THEN Result(ret_prev, 0, <<>>)
              ELSE IF type_read.err < 0 THEN Result(ret_prev, -EFAULT, <<>>)
              ELSE IF strcmp(type_read.buf, type_bind, MOUNT_TYPE_LEN) # 0
                   THEN Result(ret_prev, 0, <<>>)
              ELSE IF dev_name.kind = "null" THEN Result(ret_prev, -EFAULT, <<>>)
              ELSE IF dev_read.err < 0 THEN Result(ret_prev, -EFAULT, <<>>)
              ELSE mount_check(policy_level, dev_read.buf, ret_prev)

setuid_audit(pid, comm_ok, uid_new, uid_old, ret_prev) ==
    LET policy_level == get_policy_level(pid)
    IN IF ~comm_ok
       THEN [ret |-> -EFAULT, cur |-> -EFAULT, consulted |-> <<>>]
       ELSE CASE policy_level = POLICY_LEVEL_LOOKUP_ERR -> Result(ret_prev, -EPERM, <<>>)
              [] policy_level = POLICY_LEVEL_NOT_FOUND -> Result(ret_prev, 0, <<>>)
              [] policy_level = POLICY_LEVEL_PRIVILEGED -> Result(ret_prev, 0, <<>>)
              [] OTHER ->
                   IF uid_new = 0 /\ uid_old >= 1000
                   THEN Result(ret_prev, -EPERM, <<>>)
                   ELSE Result(ret_prev, 0, <<>>)

\* open_check asking the allow list before the deny list.
open_check_allow_first(policy_level, d_path_buf, ret_prev) ==
    CASE policy_level = POLICY_LEVEL_RESTRICTED ->
           IF bpf_for_each_map_elem(ap_acc_restr, d_path_buf).found
           THEN Result(ret_prev, 0, <<"ap_acc_restr">>)
           ELSE Result(ret_prev, -EPERM, <<"ap_acc_restr">>)
      [] policy_level = POLICY_LEVEL_BASELINE ->
           IF bpf_for_each_map_elem(ap_acc_base, d_path_buf).found
           THEN Result(ret_prev, 0, <<"ap_acc_base">>)
           ELSE IF bpf_for_each_map_elem(dp_acc_base, d_path_buf).found
           THEN Result(ret_prev, -EPERM, <<"ap_acc_base", "dp_acc_base">>)
           ELSE Result(ret_prev, -EPERM, <<"ap_acc_base", "dp_acc_base">>)
      [] OTHER -> Result(ret_prev, -EPERM, <<>>)

\* The second switch of open_audit.
open_check(policy_level, d_path_buf, ret_prev) ==
    CASE policy_level = POLICY_LEVEL_RESTRICTED ->
           IF bpf_for_each_map_elem(ap_acc_restr, d_path_buf).found
           THEN Result(ret_prev, -EPERM, <<"ap_acc_restr">>)
           ELSE IF bpf_for_each_map_elem(ap_acc_restr, d_path_buf).found
           THEN Result(ret_prev, 0, <<"ap_acc_restr", "ap_acc_restr">>)
           ELSE Result(ret_prev, -EPERM, <<"ap_acc_restr", "ap_acc_restr">>)
      [] policy_level = POLICY_LEVEL_BASELINE ->
           IF bpf_for_each_map_elem(dp_acc_base, d_path_buf).found
           THEN Result(ret_prev, -EPERM, <<"dp_acc_base">>)
           ELSE IF bpf_for_each_map_elem(ap_acc_base, d_path_buf).found
           THEN Result(ret_prev, 0, <<"dp_acc_base", "ap_acc_base">>)
           ELSE Result(ret_prev, -EPERM, <<"dp_acc_base", "ap_acc_base">>)
      [] OTHER -> Result(ret_prev, -EPERM, <<>>)

\* open_audit taking "/" for a prefix: only the first byte is compared.
open_audit_root_prefix(pid, file, ret_prev) ==
    LET policy_level == get_policy_level(pid)
        d_path == bpf_d_path(file, PATH_LEN)
    IN CASE policy_level = POLICY_LEVEL_LOOKUP_ERR -> Result(ret_prev, -EPERM, <<>>)
         [] policy_level = POLICY_LEVEL_NOT_FOUND -> Result(ret_prev, 0, <<>>)
         [] policy_level = POLICY_LEVEL_PRIVILEGED -> Result(ret_prev, 0, <<>>)
         [] OTHER ->
              IF d_path.err < 0 THEN Result(ret_prev, 0, <<>>)
              ELSE IF strcmp(d_path.buf, <<47, 0>>, 1) = 0 THEN Result(ret_prev, 0, <<>>)
              ELSE open_check(policy_level, d_path.buf, ret_prev)

\* open_audit denying a file whose path cannot be rendered.
open_audit_unresolved_deny(pid, file, ret_prev) ==
    LET policy_level == get_policy_level(pid)
        d_path == bpf_d_path(file, PATH_LEN)
    IN CASE policy_level = POLICY_LEVEL_LOOKUP_ERR -> Result(ret_prev, -EPERM, <<>>)
         [] policy_level = POLICY_LEVEL_NOT_FOUND -> Result(ret_prev, 0, <<>>)
         [] policy_level = POLICY_LEVEL_PRIVILEGED -> Result(ret_prev, 0, <<>>)
         [] OTHER ->
              IF d_path.err < 0 THEN Result(ret_prev, -EPERM, <<>>)
              ELSE IF strcmp(d_path.buf, <<47, 0>>, 2) = 0 THEN Result(ret_prev, 0, <<>>)
              ELSE open_check(policy_level, d_path.buf, ret_prev)

open_audit(pid, file, ret_prev) ==
    LET policy_level == get_policy_level(pid)
        d_path == bpf_d_path(file, PATH_LEN)
    IN CASE policy_level = POLICY_LEVEL_LOOKUP_ERR -> Result(ret_prev, -EPERM, <<>>)
         [] policy_level = POLICY_LEVEL_NOT_FOUND -> Result(ret_prev, 0, <<>>)
         [] policy_level = POLICY_LEVEL_PRIVILEGED -> Result(ret_prev, 0, <<>>)
         [] OTHER ->
              IF d_path.err < 0 THEN Result(ret_prev, 0, <<>>)
              ELSE IF strcmp(d_path.buf, <<47, 0>>, 2) = 0 THEN Result(ret_prev, 0, <<>>)
              ELSE open_check(policy_level, d_path.buf, ret_prev)

-----------------------------------------------------------------------------
(* Lineage tracker: handle_new_process, one step per map operation.        *)
(*   L127  parent_lookup = bpf_map_lookup_elem(&processes, &ppid)          *)
(*   L148  v = bpf_map_lookup_elem(&processes, &pid)                       *)
(*   L155  container_id = parent_lookup->container_id;                     *)
(*         bpf_map_lookup_elem(&containers, &container_id)                 *)
(*   L172  bpf_map_update_elem(&processes, &pid, &new_p, 0)                *)

Progs == {"sched_process_fork", "clone_audit"}

NullTask == 0

\* Previous verdicts handed to an LSM program: none, or another module's -EACCES.
PrevVerdicts == {0, -13}

Idle ==
    [pc |-> "idle", ppid |-> 0, pid |-> 0, ret_prev |-> 0,
     may |-> {}, freed |-> FALSE, container_id |-> 0,
     hret |-> 0, ret |-> 0,
     inserted |-> FALSE, rejected |-> FALSE,
     w_prior |-> FALSE, w_present |-> FALSE, w_cgone |-> FALSE,
     after_bind |-> FALSE]

\* The value a program returns for handle_new_process's result: the tracepoint
\* program returns it as it is, clone_audit folds the previous verdict in.
prog_return(prog, ret_prev, hret) ==
    IF prog = "clone_audit" THEN out(ret_prev, hret) ELSE hret

\* handle_new_process returns hret.
Return(prog, t, hret) ==
    [t EXCEPT !.pc = "done", !.hret = hret,
              !.ret = prog_return(prog, t.ret_prev, hret),
              !.may = {}, !.freed = FALSE]

\* enter with the detection of an unwrapped runtime (the branch that the
\* source keeps as a comment, part_000:129-143) compiled in.
enter_runtime_deny(prog, t0, parent, child) ==
    IF parent = NullTask \/ child = NullTask
    THEN [t0 EXCEPT !.pc = "done", !.hret = 0, !.ret = -EPERM]
    ELSE IF ~HasRow(processes, parent)
    THEN IF runtimes # EmptyMap
         THEN Return(prog, t0, -EPERM)
         ELSE Return(prog, t0, 0)
    ELSE [t0 EXCEPT !.pc = "L148", !.may = {processes[parent]}]

\* Entry of the program with its NULL checks, then L127.
enter(prog, t0, parent, child) ==
    IF parent = NullTask \/ child = NullTask
    THEN [t0 EXCEPT !.pc = "done", !.hret = 0, !.ret = -EPERM]
    ELSE IF ~HasRow(processes, parent)
    THEN Return(prog, t0, 0)
    ELSE [t0 EXCEPT !.pc = "L148", !.may = {processes[parent]}]

\* child_lookup with the test inverted.
child_lookup_inverted(prog, t) ==
    IF ~HasRow(processes, t.pid)
    THEN Return(prog, t, 0)
    ELSE [t EXCEPT !.pc = "L155"]

\* child_lookup that reports a child already registered as an error.
child_lookup_eexist(prog, t) ==
    IF HasRow(processes, t.pid)
    THEN Return(prog, t, -17)
    ELSE [t EXCEPT !.pc = "L155"]

\* L148-150: skip registration if the process entry already exists.
child_lookup(prog, t) ==
    IF HasRow(processes, t.pid)
    THEN Return(prog, t, 0)
    ELSE [t EXCEPT !.pc = "L155"]

\* container_lookup without the test of the lookup's result.
container_lookup_unchecked(prog, t, container_id) ==
    [t EXCEPT !.pc = "L172", !.container_id = container_id,
              !.may = {}, !.freed = FALSE]

\* L155-165: the container of the id read through parent_lookup must exist.
container_lookup(prog, t, container_id) ==
    IF ~HasRow(containers, container_id)
    THEN Return(prog, t, -EPERM)
    ELSE [t EXCEPT !.pc = "L172", !.container_id = container_id,
                   !.may = {}, !.freed = FALSE]

\* The flags handle_new_process passes to bpf_map_update_elem.
update_flags == BPF_ANY

\* bpf_map_update_elem(&map, &key, &value, BPF_ANY) creates the row or replaces
\* it; rejected tells that the map refused a new row (no room for it, -E2BIG).
bpf_map_update_elem(map, key, value, flags, rejected) ==
    IF flags = BPF_ANY /\ rejected /\ ~HasRow(map, key)
    THEN [err |-> -7, map |-> map]
    ELSE [err |-> 0, map |-> MapPut(map, key, value)]

\* new_p holding the id that follows.
new_p_off_by_one(container_id) == container_id + 1

\* new_p left without its initialiser.
new_p_uninitialised(container_id) == 0

\* struct process new_p = { .container_id = container_id }
new_p(container_id) == container_id

\* L167-176
update(prog, t, upd) ==
    LET t1 == [t EXCEPT !.w_prior = HasRow(processes, t.pid),
                        !.w_present = HasRow(containers, t.container_id),
                        !.inserted = (upd.err = 0),
                        !.rejected = (upd.err < 0)]
    IN IF upd.err < 0 THEN Return(prog, t1, upd.err) ELSE Return(prog, t1, 0)

\* What a write to processes does to a pointer another invocation still holds:
\* the row it points to is released when that row is deleted or replaced, and a
\* released row may be taken for the next row stored.
proc_written(t, key, value, stored, existed) ==
    IF t.pc \notin {"L148", "L155"} THEN t
    ELSE [t EXCEPT !.may = IF t.freed /\ stored THEN @ \cup {value} ELSE @,
                   !.freed = @ \/ (existed /\ key = t.ppid)]

\* A container is unregistered while an invocation is between its container
\* lookup and its update.
cont_deleted(t, c) ==
    IF t.pc = "L172" /\ t.container_id = c THEN [t EXCEPT !.w_cgone = TRUE] ELSE t

-----------------------------------------------------------------------------
(* Snapshots taken when an invocation starts; a snapshot stays valid until *)
(* the collaborator writes, or an invocation writes that runs for another  *)
(* (parent, child) or started before the collaborator's latest write.      *)

NoSnap == [valid |-> FALSE, processes |-> EmptyMap, containers |-> EmptyMap]

Snap == [valid |-> TRUE, processes |-> processes, containers |-> containers]

SamePair(t, u) == t.ppid = u.ppid /\ t.pid = u.pid

\* Once its snapshot is void, what an invocation observed is dropped: a finished
\* invocation is forgotten, a running one is no longer taken for a replay.
forget(t) ==
    IF t.pc = "done" THEN Idle ELSE [t EXCEPT !.after_bind = FALSE]

\* The child was bound for this (parent, child) by an invocation that is over,
\* and nothing else was written since.
BoundBefore(parent, child) ==
    \E q \in Progs :
        /\ trk[q].pc = "done"
        /\ trk[q].ppid = parent /\ trk[q].pid = child
        /\ hist[q].valid
        /\ trk[q].hret = 0
        /\ trk[q].inserted \/ trk[q].after_bind

-----------------------------------------------------------------------------
(* Outcome of the latest decision program invocation *)

NoInput ==
    [log |-> 0, type |-> NullPtr, dev_name |-> NullPtr, file |-> NullPtr,
     comm_ok |-> TRUE, uid_new |-> 0, uid_old |-> 0, path |-> <<>>]

NoCall ==
    [hook |-> "none", pid |-> 0, prev |-> 0, in |-> NoInput,
     tier |-> 0, ret |-> 0, cur |-> 0, consulted |-> <<>>, arm |-> "unreached"]

Call(hook, pid, ret_prev, in, r) ==
    [hook |-> hook, pid |-> pid, prev |-> ret_prev, in |-> in,
     tier |-> get_policy_level(pid),
     ret |-> r.ret, cur |-> r.cur, consulted |-> r.consulted,
     arm |-> IF "arm" \in DOMAIN r THEN r.arm ELSE "unreached"]

-----------------------------------------------------------------------------
(* Inputs the programs are run on *)

LogTypes == {2, 3}
MountTypes == {NullPtr, FaultPtr, StrPtr(STR_BIND), StrPtr(STR_TMPFS), StrPtr(STR_BINDFS)}
DevNames == {NullPtr, FaultPtr, StrPtr(STR_AB), StrPtr(STR_B)}
Files == {FaultPtr, StrPtr(STR_ROOT), StrPtr(STR_AB), StrPtr(STR_AX), StrPtr(STR_B),
          StrPtr(STR_LONG)}
\* uid_t values; the last one is the largest the model checker can hold.
OldUids == {0, 999, 1000, 1001, 2147483647}
NewUids == {0, 1002}

\* The row the collaborator stores in each path map.
PoolPath(t) ==
    CASE t = "ap_mnt_restr" -> STR_A
      [] t = "ap_mnt_base" -> STR_B
      [] t = "ap_acc_restr" -> STR_A
      [] t = "ap_acc_base" -> STR_A
      [] t = "dp_acc_restr" -> STR_AB
      [] t = "dp_acc_base" -> STR_AB

\* hash(str, len): the sum of the bytes of str up to its NUL, as a u32 (len is
\* TASK_COMM_LEN at most, so the sum stays far below 2^32 and never wraps).
RECURSIVE hash_from(_, _, _, _)
hash_from(str, len, i, h) ==
    IF i >= len \/ i >= Len(str) THEN h
    ELSE IF str[i + 1] = 0 THEN h
    ELSE hash_from(str, len, i + 1, h + str[i + 1])

hash(str, len) == hash_from(str, len, 0, 0)

\* "runc:[2:INIT]"
STR_RUNC == <<114, 117, 110, 99, 58, 91, 50, 58, 73, 78, 73, 84, 93>>

-----------------------------------------------------------------------------
(* The tasks of the system, kept for the lineage invariant: which pids are  *)
(* alive, from which registered container inits each one descends, and the  *)
(* forks whose new task has not started to run yet.                         *)

MaxTaskPid == 3

TaskPids == 1..MaxTaskPid

\* Pid 1 is the init task of the host: it is there from the start and stays.
HostTasks == {1}

\* alive: the pids in use; anc[p]: the living ancestors of p; lin[p]: the
\* containers whose registered init is p or an ancestor of p, dead or alive;
\* forking: the (parent, child) pairs whose fork is under way.
InitTasks ==
    [alive |-> HostTasks,
     anc |-> [p \in TaskPids |-> {}],
     lin |-> [p \in TaskPids |-> {}],
     forking |-> {}]

-----------------------------------------------------------------------------
(* Initial state: the maps as loaded, no program running *)

Init ==
    /\ processes = EmptyMap
    /\ containers = EmptyMap
    /\ runtimes = EmptyMap
    /\ paths = [t \in PathMaps |-> <<>>]
    /\ trk = [q \in Progs |-> Idle]
    /\ hist = [q \in Progs |-> NoSnap]
    /\ last = NoCall
    /\ tasks = InitTasks

-----------------------------------------------------------------------------
(* The user-space collaborator: it registers a container before any of its *)
(* processes and deletes rows on its own schedule.  A decision program is  *)
(* one atomic step, so the collaborator writes between two invocations:    *)
(* after the outcome of the latest one has been handed back (HookReturn).  *)

CollabRegisterContainer(c, lvl) ==
    /\ last = NoCall
    /\ ~HasRow(containers, c)
    /\ containers' = MapPut(containers, c, lvl)
    /\ trk' = [q \in Progs |-> forget(trk[q])]
    /\ hist' = [q \in Progs |-> NoSnap]
    /\ UNCHANGED <<tasks, last, processes, runtimes, paths>>

CollabUnregisterContainer(c) ==
    /\ last = NoCall
    /\ HasRow(containers, c)
    /\ containers' = MapDel(containers, c)
    /\ trk' = [q \in Progs |-> forget(cont_deleted(trk[q], c))]
    /\ hist' = [q \in Progs |-> NoSnap]
    /\ UNCHANGED <<tasks, last, processes, runtimes, paths>>

CollabRegisterProcess(p, c) ==
    /\ last = NoCall
    /\ HasRow(containers, c)
    /\ ~HasRow(processes, p)
    /\ processes' = MapPut(processes, p, c)
    /\ trk' = [q \in Progs |-> forget(proc_written(trk[q], p, c, TRUE, FALSE))]
    /\ hist' = [q \in Progs |-> NoSnap]
    /\ UNCHANGED <<tasks, last, containers, runtimes, paths>>

CollabUnregisterProcess(p) ==
    /\ last = NoCall
    /\ HasRow(processes, p)
    /\ processes' = MapDel(processes, p)
    /\ trk' = [q \in Progs |-> forget(proc_written(trk[q], p, 0, FALSE, TRUE))]
    /\ hist' = [q \in Progs |-> NoSnap]
    /\ UNCHANGED <<tasks, last, containers, runtimes, paths>>

CollabSetPath(t) ==
    /\ last = NoCall
    /\ paths[t] = <<>>
    /\ paths' = [paths EXCEPT ![t] = <<accessed_path(0, PoolPath(t))>>]
    /\ UNCHANGED <<tasks, last, processes, containers, runtimes, trk, hist>>

CollabDelPath(t) ==
    /\ last = NoCall
    /\ paths[t] # <<>>
    /\ paths' = [paths EXCEPT ![t] = <<>>]
    /\ UNCHANGED <<tasks, last, processes, containers, runtimes, trk, hist>>

CollabSetRuntime ==
    /\ runtimes = EmptyMap
    /\ runtimes' = MapPut(runtimes, hash(STR_RUNC, 16), 1)
    /\ UNCHANGED <<tasks, processes, containers, paths, trk, hist, last>>

CollabDelRuntime ==
    /\ runtimes # EmptyMap
    /\ runtimes' = EmptyMap
    /\ UNCHANGED <<tasks, processes, containers, paths, trk, hist, last>>

-----------------------------------------------------------------------------
(* The decision programs, each a whole invocation.  last holds the outcome *)
(* of one invocation at a time: it is cleared when the program has         *)
(* returned to the kernel (HookReturn).                                    *)

SyslogAudit(pid, type, ret_prev) ==
    /\ last = NoCall
    /\ last' = Call("syslog", pid, ret_prev, [NoInput EXCEPT !.log = type],
                    syslog_audit(pid, type, ret_prev))
    /\ UNCHANGED <<tasks, processes, containers, runtimes, paths, trk, hist>>

MountAudit(pid, dev_name, type, ret_prev) ==
    /\ last = NoCall
    /\ last' = Call("mount", pid, ret_prev,
                    [NoInput EXCEPT !.dev_name = dev_name, !.type = type],
                    mount_audit(pid, dev_name, type, ret_prev))
    /\ UNCHANGED <<tasks, processes, containers, runtimes, paths, trk, hist>>

SetuidAudit(pid, comm_ok, uid_new, uid_old, ret_prev) ==
    /\ last = NoCall
    /\ last' = Call("setuid", pid, ret_prev,
                    [NoInput EXCEPT !.comm_ok = comm_ok, !.uid_new = uid_new,
                                    !.uid_old = uid_old],
                    setuid_audit(pid, comm_ok, uid_new, uid_old, ret_prev))
    /\ UNCHANGED <<tasks, processes, containers, runtimes, paths, trk, hist>>

OpenAudit(pid, file, ret_prev) ==
    /\ last = NoCall
    /\ last' = Call("open", pid, ret_prev, [NoInput EXCEPT !.file = file],
                    open_audit(pid, file, ret_prev))
    /\ UNCHANGED <<tasks, processes, containers, runtimes, paths, trk, hist>>

\* get_policy_level on its own.
Resolve(pid) ==
    /\ last = NoCall
    /\ last' = [NoCall EXCEPT !.hook = "resolve", !.pid = pid,
                              !.tier = get_policy_level(pid)]
    /\ UNCHANGED <<tasks, processes, containers, runtimes, paths, trk, hist>>

HookReturn ==
    /\ last # NoCall
    /\ last' = NoCall
    /\ UNCHANGED <<tasks, processes, containers, runtimes, paths, trk, hist>>

-----------------------------------------------------------------------------
(* The lineage programs, one step per map operation *)

Start(prog, parent, child, ret_prev) ==
    /\ trk[prog].pc \in {"idle", "done"}
    /\ trk' = [trk EXCEPT ![prog] =
                 enter(prog, [Idle EXCEPT !.ppid = parent, !.pid = child,
                                          !.ret_prev = ret_prev,
                                          !.after_bind = BoundBefore(parent, child)],
                       parent, child)]
    /\ hist' = [hist EXCEPT ![prog] = Snap]
    /\ UNCHANGED <<tasks, processes, containers, runtimes, paths, last>>

SchedProcessFork(parent, child) ==
    Start("sched_process_fork", parent, child, 0)

CloneAudit(parent, child, ret_prev) ==
    Start("clone_audit", parent, child, ret_prev)

ChildLookup(prog) ==
    /\ trk[prog].pc = "L148"
    /\ trk' = [trk EXCEPT ![prog] = child_lookup(prog, @)]
    /\ UNCHANGED <<tasks, processes, containers, runtimes, paths, last, hist>>

ContainerLookup(prog) ==
    /\ trk[prog].pc = "L155"
    /\ \E container_id \in trk[prog].may :
         trk' = [trk EXCEPT ![prog] = container_lookup(prog, @, container_id)]
    /\ UNCHANGED <<tasks, processes, containers, runtimes, paths, last, hist>>

Update(prog) ==
    /\ trk[prog].pc = "L172"
    /\ \E rejected \in BOOLEAN :
         LET t == trk[prog]
             upd == bpf_map_update_elem(processes, t.pid, new_p(t.container_id),
                                        update_flags, rejected)
             existed == HasRow(processes, t.pid)
             \* the snapshot of q outlives this write
             keeps(q) == \/ q = prog
                         \/ upd.err # 0
                         \/ SamePair(trk[q], t) /\ hist[prog].valid
         IN /\ processes' = upd.map
            /\ trk' = [q \in Progs |->
                         IF q = prog THEN update(prog, t, upd)
                         ELSE IF upd.err # 0 THEN trk[q]
                         ELSE IF keeps(q)
                         THEN proc_written(trk[q], t.pid, upd.map[t.pid],
                                           TRUE, existed)
                         ELSE forget(proc_written(trk[q], t.pid, upd.map[t.pid],
                                                  TRUE, existed))]
            /\ hist' = [q \in Progs |-> IF keeps(q) THEN hist[q] ELSE NoSnap]
    /\ UNCHANGED <<tasks, containers, runtimes, paths, last>>

-----------------------------------------------------------------------------
(* Specifications *)

\* Tiers of the containers registered in the lineage specification.
LineageTiers == {POLICY_LEVEL_BASELINE}

Collab(PS, CS, LS) ==
    \/ \E c \in CS, lvl \in LS : CollabRegisterContainer(c, lvl)
    \/ \E c \in CS : CollabUnregisterContainer(c)
    \/ \E p \in PS, c \in CS : CollabRegisterProcess(p, c)
    \/ \E p \in PS : CollabUnregisterProcess(p)

\* The decision programs over every map content.
NextHooks ==
    \/ Collab(HookPids, HookCids, Tiers)
    \/ \E t \in PathMaps : CollabSetPath(t)
    \/ \E t \in PathMaps : CollabDelPath(t)
    \/ \E pid \in HookPids, type \in LogTypes, prev \in PrevVerdicts :
         SyslogAudit(pid, type, prev)
    \/ \E pid \in HookPids, dev_name \in DevNames, type \in MountTypes,
          prev \in PrevVerdicts :
         MountAudit(pid, dev_name, type, prev)
    \/ \E pid \in HookPids, comm_ok \in BOOLEAN, uid_new \in NewUids,
          uid_old \in OldUids, prev \in PrevVerdicts :
         SetuidAudit(pid, comm_ok, uid_new, uid_old, prev)
    \/ \E pid \in HookPids, file \in Files, prev \in PrevVerdicts :
         OpenAudit(pid, file, prev)
    \/ HookReturn

SpecHooks == Init /\ [][NextHooks]_vars

\* The resolver over every content of processes and containers; the runtimes
\* map changes under a result already returned.
NextResolver ==
    \/ Collab(Pids, Cids, Tiers)
    \/ CollabSetRuntime
    \/ CollabDelRuntime
    \/ \E pid \in Pids : Resolve(pid)
    \/ HookReturn

SpecResolver == Init /\ [][NextResolver]_vars

\* The lineage programs on two CPUs, interleaved with the collaborator.
Tracker ==
    \/ \E parent \in Pids \cup {NullTask}, child \in Pids \cup {NullTask} :
         parent # child /\ SchedProcessFork(parent, child)
    \/ \E parent \in Pids \cup {NullTask}, child \in Pids, prev \in PrevVerdicts :
         parent # child /\ CloneAudit(parent, child, prev)
    \/ \E prog \in Progs : ChildLookup(prog)
    \/ \E prog \in Progs : ContainerLookup(prog)
    \/ \E prog \in Progs : Update(prog)

NextLineage ==
    \/ Collab(Pids, Cids, LineageTiers)
    \/ Tracker

SpecLineage == Init /\ [][NextLineage]_vars

Spec == SpecLineage

-----------------------------------------------------------------------------
(* Properties *)

DecisionHooks == {"syslog", "mount", "setuid", "open"}

\* C1: stacking law of syslog_audit, mount_audit and open_audit: the program
\* returns the previous verdict unchanged when it is not 0, and the verdict it
\* computed itself when the previous verdict is 0.
C1_StackingLaw ==
    last.hook \in {"syslog", "mount", "open"} =>
        last.ret = (IF last.prev # 0 THEN last.prev ELSE last.cur)

\* An open that the program itself denies returns another module's verdict.
C1_Witness ==
    /\ last.hook = "open"
    /\ last.prev = -13
    /\ last.cur = -EPERM
    /\ last.ret = -13

\* C2: host passthrough: with no previous verdict, every decision program
\* returns 0 for a pid that has no row in processes.
C2_HostPassthrough ==
    (/\ last.hook \in DecisionHooks
     /\ last.prev = 0
     /\ ~HasRow(processes, last.pid))
    => last.ret = 0

\* C3: privileged bypass: with no previous verdict, every decision program
\* returns 0 for a pid bound to a PRIVILEGED container.
C3_PrivilegedBypass ==
    (/\ last.hook \in DecisionHooks
     /\ last.prev = 0
     /\ HasRow(processes, last.pid)
     /\ HasRow(containers, processes[last.pid])
     /\ containers[processes[last.pid]] = POLICY_LEVEL_PRIVILEGED)
    => last.ret = 0

\* C4: fail closed: with no previous verdict, every decision program returns
\* -EPERM for a pid whose processes row names a container that has no row, and
\* consults no path map.
C4_FailClosed ==
    (/\ last.hook \in DecisionHooks
     /\ last.prev = 0
     /\ HasRow(processes, last.pid)
     /\ ~HasRow(containers, processes[last.pid]))
    => (last.ret = -EPERM /\ last.consulted = <<>>)

\* C5: get_policy_level(pid) is NOT_FOUND iff pid has no processes row,
\* LOOKUP_ERR iff it has one whose container has no row, and the container's
\* stored level otherwise; calling it again on the same maps gives the same.
C5_ResolverResult ==
    last.hook = "resolve" =>
        LET bound == HasRow(processes, last.pid)
            known == bound /\ HasRow(containers, processes[last.pid])
        IN /\ (last.tier = POLICY_LEVEL_NOT_FOUND) <=> ~bound
           /\ (last.tier = POLICY_LEVEL_LOOKUP_ERR) <=> (bound /\ ~known)
           /\ known => last.tier = containers[processes[last.pid]]
           /\ last.tier = get_policy_level(last.pid)

\* A pid bound to a container other than the one numbered like the pid.
C5_Witness ==
    /\ last.hook = "resolve"
    /\ HasRow(processes, last.pid)
    /\ processes[last.pid] # last.pid
    /\ last.tier = POLICY_LEVEL_PRIVILEGED

\* C2, C3 and C4 hold of every invocation in which setuid_audit could read the
\* command name of the current task.
HooksWhenCommRead ==
    last.in.comm_ok => (C2_HostPassthrough /\ C3_PrivilegedBypass /\ C4_FailClosed)

\* The snapshot of invocation q says that the parent was bound to a container
\* that had a row.
Bindable(q) ==
    /\ HasRow(hist[q].processes, trk[q].ppid)
    /\ HasRow(hist[q].containers, hist[q].processes[trk[q].ppid])

\* C6: fork inheritance: an invocation that starts with the parent bound, the
\* parent's container present and the child unbound, and whose insert is not
\* refused, returns 0 and leaves processes as it was but for the child's row,
\* which holds the parent's container id.
C6_ForkInheritance ==
    \A q \in Progs :
        (/\ trk[q].pc = "done"
         /\ trk[q].pid # NullTask
         /\ hist[q].valid
         /\ Bindable(q)
         /\ ~HasRow(hist[q].processes, trk[q].pid)
         /\ ~trk[q].rejected)
        => /\ trk[q].hret = 0
           /\ processes = MapPut(hist[q].processes, trk[q].pid,
                                 hist[q].processes[trk[q].ppid])
           /\ processes[trk[q].pid] = processes[trk[q].ppid]

C6_Witness ==
    \E q \in Progs :
        /\ trk[q].pc = "done"
        /\ hist[q].valid
        /\ trk[q].inserted
        /\ ~HasRow(hist[q].processes, trk[q].pid)
        /\ processes[trk[q].pid] = processes[trk[q].ppid]

\* C7: idempotence: an invocation replayed for a (parent, child) that an
\* earlier invocation bound, with no write of the collaborator in between,
\* returns 0 and leaves processes and containers as they were; the child's row
\* holds the parent's container id.
C7_Idempotent ==
    \A q \in Progs :
        (/\ trk[q].pc = "done"
         /\ hist[q].valid
         /\ trk[q].after_bind)
        => /\ trk[q].hret = 0
           /\ ~trk[q].inserted
           /\ processes = hist[q].processes
           /\ containers = hist[q].containers
           /\ HasRow(processes, trk[q].pid)
           /\ HasRow(processes, trk[q].ppid)
           /\ processes[trk[q].pid] = processes[trk[q].ppid]

\* A replay of a replay is over.
C7_Witness ==
    \E q \in Progs :
        /\ trk[q].pc = "done"
        /\ hist[q].valid
        /\ trk[q].after_bind
        /\ \E r \in Progs \ {q} :
             trk[r].pc = "done" /\ trk[r].after_bind /\ SamePair(trk[r], trk[q])

C9_BindTimeConsistency ==
    \A q \in Progs :
        (trk[q].pc = "done" /\ trk[q].inserted) => trk[q].w_present

\* C9 as amended: whenever the tracker writes the child's row, the container
\* whose id it writes has a row, unless the collaborator unregistered that
\* container after the tracker looked it up and before the tracker wrote.
C9_BindTimeConsistencyAmended ==
    \A q \in Progs :
        (trk[q].pc = "done" /\ trk[q].inserted) =>
            (trk[q].w_present \/ trk[q].w_cgone)

\* A write made while the collaborator was writing too.
C9_Witness ==
    \E q \in Progs :
        /\ trk[q].pc = "done"
        /\ trk[q].inserted
        /\ trk[q].w_present
        /\ ~hist[q].valid

\* C10: the tracker only ever creates a row for a key that has none at the
\* moment of its write.
C10_InsertOnly ==
    \A q \in Progs :
        (trk[q].pc = "done" /\ trk[q].inserted) => ~trk[q].w_prior

\* A failed registration stores nothing: an invocation that returns an error
\* has not written the child's row.
RegistrationFailureLeavesUnbound ==
    \A q \in Progs : (trk[q].pc = "done" /\ trk[q].hret < 0) => ~trk[q].inserted

\* C11: registration failure is fail-open: when handle_new_process, run from
\* clone_audit with no previous verdict, finds the parent bound to a missing
\* container or has its insert rejected, it stores no row for the child and
\* clone_audit returns 0, so that the creation of the child is not denied.
C11_RegistrationFailOpen ==
    LET t == trk["clone_audit"]
    IN (/\ t.pc = "done"
        /\ t.ppid # NullTask
        /\ t.ret_prev = 0
        /\ t.hret < 0)
       => (~t.inserted /\ t.ret = 0)

\* The whole core: the collaborator, the lineage programs and the decision
\* programs with the resolver.  A decision program is one atomic step whose
\* outcome is handed back before anything else is observed.
NextCore ==
    \/ last = NoCall /\ Collab(Pids, Cids, LineageTiers)
    \/ last = NoCall /\ Tracker
    \/ \E pid \in HookPids, prev \in PrevVerdicts : SyslogAudit(pid, 3, prev)
    \/ \E pid \in HookPids, prev \in PrevVerdicts :
         MountAudit(pid, StrPtr(STR_AB), StrPtr(STR_BIND), prev)
    \/ \E pid \in HookPids, prev \in PrevVerdicts :
         SetuidAudit(pid, TRUE, 0, 1000, prev)
    \/ \E pid \in HookPids, prev \in PrevVerdicts :
         OpenAudit(pid, StrPtr(STR_AB), prev)
    \/ \E pid \in HookPids : Resolve(pid)
    \/ HookReturn

SpecCore == Init /\ [][NextCore]_vars

\* A step of a decision program or of the resolver.
DecisionStep == last' # last /\ last' # NoCall

\* The rows processes had are all there, as they were.
RowsKept == \A p \in DOMAIN processes : HasRow(processes', p) /\ processes'[p] = processes[p]

\* A step of the lineage programs writes to processes alone, and there to the
\* row of the child it runs for.
TrackerWritesChildRow ==
    [][Tracker =>
         /\ UNCHANGED <<containers, runtimes, paths>>
         /\ \A p \in DOMAIN processes : HasRow(processes', p)
         /\ \A p \in DOMAIN processes' :
              (~HasRow(processes, p) \/ processes'[p] # processes[p]) =>
                  \E q \in Progs : trk[q].pc = "L172" /\ trk[q].pid = p]_vars

\* C12: write footprint: the decision programs and the resolver leave every
\* map as it is; the lineage programs change processes only, only by adding
\* rows: they delete no row, change no row, and write to no other map.
C12_WriteFootprint ==
    [][/\ DecisionStep => UNCHANGED <<processes, containers, runtimes, paths>>
       /\ Tracker => (UNCHANGED <<containers, runtimes, paths>> /\ RowsKept)]_vars

-----------------------------------------------------------------------------
(* The path matcher on its own: a table drawn from a pool of entries, probed *)
(* with a 64-byte buffer; the collaborator's re-insertions change the order  *)
(* in which the rows are visited.                                            *)

MaxRows == 3

\* Entries of effective length 0, 2, 4, 2 and PATH_LEN.
EntryPool == {<<>>, STR_A, STR_AB, STR_B, STR_LONG}

\* Probe buffers: empty, "/", "/a/b", "/a/x", "/b" and one filled to the last byte.
ProbePool == {Pad(s, PATH_LEN) : s \in {<<>>, STR_ROOT, STR_AB, STR_AX, STR_B, STR_LONG}}

RECURSIVE TablesOf(_)
TablesOf(n) ==
    IF n = 0 THEN {<<>>}
    ELSE LET shorter == TablesOf(n - 1)
         IN shorter \cup {Append(t, accessed_path(Len(t), e)) :
                            t \in {u \in shorter : Len(u) = n - 1}, e \in EntryPool}

InitMatcher ==
    /\ processes = EmptyMap
    /\ containers = EmptyMap
    /\ runtimes = EmptyMap
    /\ \E T \in TablesOf(MaxRows) :
         paths = [t \in PathMaps |-> IF t = "ap_mnt_restr" THEN T ELSE <<>>]
    /\ trk = [q \in Progs |-> Idle]
    /\ hist = [q \in Progs |-> NoSnap]
    /\ last = NoCall
    /\ tasks = InitTasks

\* struct paths_callback_ctx cb = { .found = false, .path = path };
\* bpf_for_each_map_elem(&ap_mnt_restr, check_paths, &cb, 0); cb.found
Match(path) ==
    /\ last = NoCall
    /\ last' = [NoCall EXCEPT !.hook = "match", !.in.path = path,
                              !.ret = IF bpf_for_each_map_elem(ap_mnt_restr, path).found
                                      THEN 1 ELSE 0]
    /\ UNCHANGED <<tasks, processes, containers, runtimes, paths, trk, hist>>

\* Two neighbouring rows change places in the iteration order.
Reorder(i) ==
    /\ i < Len(ap_mnt_restr)
    /\ paths' = [paths EXCEPT !["ap_mnt_restr"] =
                   [j \in 1..Len(@) |-> IF j = i THEN @[i + 1]
                                        ELSE IF j = i + 1 THEN @[i] ELSE @[j]]]
    /\ UNCHANGED <<tasks, processes, containers, runtimes, trk, hist, last>>

NextMatcher ==
    \/ \E path \in ProbePool : Match(path)
    \/ \E i \in 1..MaxRows : Reorder(i)
    \/ HookReturn

SpecMatcher == InitMatcher /\ [][NextMatcher]_vars

\* Effective length of an entry: the index of its first NUL, PATH_LEN if none.
EffLen(e) ==
    IF \E i \in 1..PATH_LEN : e[i] = 0
    THEN (CHOOSE i \in 1..PATH_LEN : e[i] = 0 /\ \A j \in 1..(i - 1) : e[j] # 0) - 1
    ELSE PATH_LEN

\* Some entry of T of effective length n > 0 agrees with P on its first n bytes.
PrefixLaw(T, P) ==
    \E i \in 1..Len(T) :
        LET n == EffLen(T[i].path)
        IN n > 0 /\ \A j \in 1..n : T[i].path[j] = P[j]

\* C13: the matcher finds a match iff some entry of the table of effective
\* length > 0 is a byte prefix of the probe; this holds of every order in which
\* the rows are visited, so the order does not change the result.
C13_PrefixLaw ==
    last.hook = "match" =>
        /\ (last.ret = 1) <=> PrefixLaw(ap_mnt_restr, last.in.path)
        /\ (last.ret = 1) <=> bpf_for_each_map_elem(ap_mnt_restr, last.in.path).found

\* A match behind an empty row, by an entry shorter than the probe.
C13_Witness ==
    /\ last.hook = "match"
    /\ last.ret = 1
    /\ Len(ap_mnt_restr) = MaxRows
    /\ EffLen(ap_mnt_restr[1].path) = 0
    /\ EffLen(last.in.path) = 4
    /\ \A i \in 1..MaxRows : EffLen(ap_mnt_restr[i].path) \in {0, 2}

-----------------------------------------------------------------------------
(* mount_audit with richer allowlists and mount arguments *)

MaxMountRows == 2

\* Allowlist entries: empty, "/a", and one of PATH_LEN bytes with no NUL.
MountEntryPool == {<<>>, STR_A, STR_LONG}

MountTables == {"ap_mnt_restr", "ap_mnt_base"}

STR_BIN == <<98, 105, 110>>

\* A source path longer than the buffer it is read into.
STR_LONGER == STR_LONG \o <<47, 121>>

MountTypeArgs == {NullPtr, FaultPtr, StrPtr(<<>>), StrPtr(STR_BIN), StrPtr(STR_BIND),
                  StrPtr(STR_TMPFS), StrPtr(STR_BINDFS)}

MountDevArgs == {NullPtr, FaultPtr, StrPtr(STR_AB), StrPtr(STR_B), StrPtr(STR_LONG),
                 StrPtr(STR_LONGER)}

\* The collaborator stores one more allowed path.
CollabAddPath(t, s) ==
    /\ last = NoCall
    /\ Len(paths[t]) < MaxMountRows
    /\ \A i \in 1..Len(paths[t]) : paths[t][i].path # Pad(s, PATH_LEN)
    /\ paths' = [paths EXCEPT ![t] = Append(@, accessed_path(Len(@), s))]
    /\ UNCHANGED <<tasks, last, processes, containers, runtimes, trk, hist>>

NextMount ==
    \/ Collab(HookPids, HookCids, {POLICY_LEVEL_RESTRICTED, POLICY_LEVEL_BASELINE})
    \/ \E t \in MountTables, s \in MountEntryPool : CollabAddPath(t, s)
    \/ \E t \in MountTables : CollabDelPath(t)
    \/ \E pid \in HookPids, dev_name \in MountDevArgs, type \in MountTypeArgs,
          prev \in PrevVerdicts :
         MountAudit(pid, dev_name, type, prev)
    \/ HookReturn

SpecMount == Init /\ [][NextMount]_vars

\* The allowlist mount_audit consults for a tier.
MountAllowlist(tier) ==
    IF tier = POLICY_LEVEL_RESTRICTED THEN "ap_mnt_restr" ELSE "ap_mnt_base"

\* Some entry of T of effective length n > 0 is a byte prefix of the string s.
PrefixOfString(T, s) ==
    \E i \in 1..Len(T) :
        LET n == EffLen(T[i].path)
        IN n > 0 /\ n <= Len(s) /\ \A j \in 1..n : T[i].path[j] = s[j]

\* A bind mount by a RESTRICTED or BASELINE pid, with a source that can be read.
BindMountCall ==
    /\ last.hook = "mount"
    /\ last.prev = 0
    /\ last.tier \in {POLICY_LEVEL_RESTRICTED, POLICY_LEVEL_BASELINE}
    /\ last.in.type = StrPtr(STR_BIND)
    /\ last.in.dev_name.kind = "str"

\* C14: bind-mount allowlist: a bind mount by a RESTRICTED (BASELINE) pid with
\* a readable source of any length returns 0 iff some non-empty entry of the
\* tier's allowlist is a byte prefix of the source, -EPERM otherwise, and only
\* the tier's own allowlist is consulted.
C14_BindMountAllowlist ==
    BindMountCall =>
        /\ last.ret = (IF PrefixOfString(paths[MountAllowlist(last.tier)],
                                         last.in.dev_name.s)
                       THEN 0 ELSE -EPERM)
        /\ last.consulted = <<MountAllowlist(last.tier)>>

\* What holds of the code: the decision is taken on the first PATH_LEN - 1 bytes
\* of the source, the bytes the 64-byte buffer holds before its NUL.
BindMountAllowlistOnBuffer ==
    BindMountCall =>
        /\ last.ret = (IF PrefixLaw(paths[MountAllowlist(last.tier)],
                                    bpf_probe_read_kernel_str(PATH_LEN, last.in.dev_name).buf)
                       THEN 0 ELSE -EPERM)
        /\ last.consulted = <<MountAllowlist(last.tier)>>
        /\ Len(last.in.dev_name.s) < PATH_LEN =>
             last.ret = (IF PrefixOfString(paths[MountAllowlist(last.tier)],
                                           last.in.dev_name.s)
                         THEN 0 ELSE -EPERM)

\* A mount by a RESTRICTED or BASELINE pid whose type can be read.
TypedMountCall ==
    /\ last.hook = "mount"
    /\ last.prev = 0
    /\ last.tier \in {POLICY_LEVEL_RESTRICTED, POLICY_LEVEL_BASELINE}
    /\ last.in.type.kind = "str"

\* C15: only bind mounts are policed: a mount by a RESTRICTED or BASELINE pid
\* whose type is a readable string other than "bind" (shorter, another name, or
\* longer and beginning with "bind") returns 0 whatever the source and the
\* allowlists are.
C15_OnlyBindPoliced ==
    (TypedMountCall /\ last.in.type.s # STR_BIND) => last.ret = 0

\* What holds of the code: a mount is let through when the first
\* MOUNT_TYPE_LEN - 1 bytes of its type are not "bind".
OnlyBindPrefixPoliced ==
    (/\ TypedMountCall
     /\ bpf_probe_read_kernel_str(MOUNT_TYPE_LEN, last.in.type).buf
          # Pad(STR_BIND, MOUNT_TYPE_LEN))
    => last.ret = 0

-----------------------------------------------------------------------------
(* Decisions of the programs per tier, under SpecHooks *)

\* C16: syslog decision: with no previous verdict, syslog_audit returns -EPERM
\* for a RESTRICTED or BASELINE pid and 0 for a PRIVILEGED pid, whatever the log
\* access type and the path maps are; it consults no path map.
C16_SyslogDecision ==
    (last.hook = "syslog" /\ last.prev = 0) =>
        /\ last.tier \in {POLICY_LEVEL_RESTRICTED, POLICY_LEVEL_BASELINE} =>
             last.ret = -EPERM
        /\ last.tier = POLICY_LEVEL_PRIVILEGED => last.ret = 0
        /\ last.consulted = <<>>

\* A BASELINE pid is denied a log access of type 2 while every path map has a row.
C16_Witness ==
    /\ last.hook = "syslog"
    /\ last.prev = 0
    /\ last.tier = POLICY_LEVEL_BASELINE
    /\ last.in.log = 2
    /\ \A t \in PathMaps : paths[t] # <<>>
    /\ last.ret = -EPERM

\* A setuid by a RESTRICTED or BASELINE pid.
SetuidCall ==
    /\ last.hook = "setuid"
    /\ last.prev = 0
    /\ last.tier \in {POLICY_LEVEL_RESTRICTED, POLICY_LEVEL_BASELINE}

\* C17: setuid decision: with no previous verdict, setuid_audit for a
\* RESTRICTED or BASELINE pid returns -EPERM iff the new uid is 0 and the old
\* uid is at least 1000, and 0 for every other pair of uids.
C17_SetuidDecision ==
    SetuidCall =>
        last.ret = (IF last.in.uid_new = 0 /\ last.in.uid_old >= 1000
                    THEN -EPERM ELSE 0)

\* What holds of the code: the decision is the claimed one whenever the command
\* name of the current task could be read.
SetuidDecisionWhenCommRead ==
    (SetuidCall /\ last.in.comm_ok) =>
        last.ret = (IF last.in.uid_new = 0 /\ last.in.uid_old >= 1000
                    THEN -EPERM ELSE 0)

-----------------------------------------------------------------------------
(* open_audit with allow and deny lists that may hold "/" *)

\* Entries of the access lists: "/" and "/a/b".
OpenEntryPool == {STR_ROOT, STR_AB}

OpenTables == {"ap_acc_restr", "ap_acc_base", "dp_acc_restr", "dp_acc_base"}

\* The collaborator stores a path in an empty list.
CollabStorePath(t, s) ==
    /\ last = NoCall
    /\ paths[t] = <<>>
    /\ paths' = [paths EXCEPT ![t] = <<accessed_path(0, s)>>]
    /\ UNCHANGED <<tasks, last, processes, containers, runtimes, trk, hist>>

NextOpen ==
    \/ Collab(HookPids, HookCids, {POLICY_LEVEL_RESTRICTED, POLICY_LEVEL_BASELINE})
    \/ \E t \in OpenTables, s \in OpenEntryPool : CollabStorePath(t, s)
    \/ \E t \in OpenTables : CollabDelPath(t)
    \/ \E pid \in HookPids, file \in Files, prev \in PrevVerdicts :
         OpenAudit(pid, file, prev)
    \/ HookReturn

SpecOpen == Init /\ [][NextOpen]_vars

\* An open by a pid of the given tier whose path could be rendered.
OpenCall(tier) ==
    /\ last.hook = "open"
    /\ last.prev = 0
    /\ last.tier = tier
    /\ bpf_d_path(last.in.file, PATH_LEN).err >= 0

\* Deny if the deny list matches, else allow if the allow list matches, else deny.
DenyAllowDeny(deny, allow, s) ==
    IF PrefixOfString(deny, s) THEN -EPERM
    ELSE IF PrefixOfString(allow, s) THEN 0
    ELSE -EPERM

\* C18: open decision, RESTRICTED tier: an open of a rendered path other than
\* "/" returns -EPERM if an entry of denied_paths_access_restricted is a prefix
\* of the path, else 0 if an entry of allowed_paths_access_restricted is, else
\* -EPERM.
C18_OpenRestricted ==
    (OpenCall(POLICY_LEVEL_RESTRICTED) /\ last.in.file.s # STR_ROOT) =>
        last.ret = DenyAllowDeny(dp_acc_restr, ap_acc_restr, last.in.file.s)

\* What holds of the code: a RESTRICTED pid is denied every rendered path other
\* than "/", and only allowed_paths_access_restricted is read.
OpenRestrictedAlwaysDenied ==
    (OpenCall(POLICY_LEVEL_RESTRICTED) /\ last.in.file.s # STR_ROOT) =>
        /\ last.ret = -EPERM
        /\ \A i \in 1..Len(last.consulted) : last.consulted[i] = "ap_acc_restr"

\* C19: open decision, BASELINE tier: an open of a rendered path other than "/"
\* returns -EPERM if an entry of denied_paths_access_baseline is a prefix of the
\* path (also when an allow entry matches too), else 0 if an entry of
\* allowed_paths_access_baseline is, else -EPERM (also with both lists empty).
C19_OpenBaseline ==
    (OpenCall(POLICY_LEVEL_BASELINE) /\ last.in.file.s # STR_ROOT) =>
        last.ret = DenyAllowDeny(dp_acc_base, ap_acc_base, last.in.file.s)

\* A path that the allow list and the deny list both match is denied.
C19_Witness ==
    /\ OpenCall(POLICY_LEVEL_BASELINE)
    /\ last.in.file.s = STR_AB
    /\ PrefixOfString(ap_acc_base, STR_AB)
    /\ PrefixOfString(dp_acc_base, STR_AB)
    /\ last.ret = -EPERM

\* The allow list the open of a tier should be decided by.
OpenAllowlist(tier) ==
    IF tier = POLICY_LEVEL_RESTRICTED THEN ap_acc_restr ELSE ap_acc_base

\* C20: open of root: an open of "/" by a RESTRICTED or BASELINE pid returns 0
\* whatever the lists hold and reads none of them; no other path is treated so:
\* a longer path is decided by the lists and denied when the allow list is
\* empty.
C20_OpenRoot ==
    \A tier \in {POLICY_LEVEL_RESTRICTED, POLICY_LEVEL_BASELINE} :
        OpenCall(tier) =>
            /\ last.in.file.s = STR_ROOT => (last.ret = 0 /\ last.consulted = <<>>)
            /\ last.in.file.s # STR_ROOT =>
                 /\ last.consulted # <<>>
                 /\ OpenAllowlist(tier) = <<>> => last.ret = -EPERM

\* "/" is opened while the deny list holds "/" and the allow list is empty.
C20_Witness ==
    /\ OpenCall(POLICY_LEVEL_BASELINE)
    /\ last.in.file.s = STR_ROOT
    /\ ap_acc_base = <<>>
    /\ dp_acc_base = <<accessed_path(0, STR_ROOT)>>
    /\ last.ret = 0

-----------------------------------------------------------------------------
(* Lineage: the tracker inside the life of the tasks.  The kernel runs the  *)
(* two lineage programs for a fork while the fork is under way: the parent  *)
(* is inside the fork and the child has not run yet, so neither exits nor   *)
(* forks before the programs have returned.  The collaborator registers a   *)
(* container, then a living process that has no row as its init, and        *)
(* deletes the row of a pid when that pid exits.                            *)

\* The collaborator registers p as the init process of container c.
TaskRegisterInit(p, c) ==
    /\ p \in tasks.alive
    /\ HasRow(containers, c)
    /\ ~HasRow(processes, p)
    /\ processes' = MapPut(processes, p, c)
    /\ trk' = [q \in Progs |-> forget(proc_written(trk[q], p, c, TRUE, FALSE))]
    /\ hist' = [q \in Progs |-> NoSnap]
    /\ tasks' = [tasks EXCEPT !.lin =
                   [x \in TaskPids |->
                      IF x = p \/ p \in tasks.anc[x] THEN @[x] \cup {c} ELSE @[x]]]
    /\ UNCHANGED <<last, containers, runtimes, paths>>

\* parent forks: the new task takes a pid that is free.
TaskFork(parent, child) ==
    /\ parent \in tasks.alive
    /\ child \notin tasks.alive
    /\ \A pair \in tasks.forking : parent \notin {pair[1], pair[2]}
    /\ tasks' = [tasks EXCEPT !.alive = @ \cup {child},
                              !.anc[child] = tasks.anc[parent] \cup {parent},
                              !.lin[child] = tasks.lin[parent],
                              !.forking = @ \cup {<<parent, child>>}]
    /\ UNCHANGED <<processes, containers, runtimes, paths, trk, hist, last>>

\* The lineage programs run for the forks under way.
TaskTracker ==
    \/ \E pair \in tasks.forking : SchedProcessFork(pair[1], pair[2])
    \/ \E pair \in tasks.forking, prev \in PrevVerdicts :
         CloneAudit(pair[1], pair[2], prev)
    \/ \E prog \in Progs : ChildLookup(prog)
    \/ \E prog \in Progs : ContainerLookup(prog)
    \/ \E prog \in Progs : Update(prog)

\* The fork is over once the programs run for it have returned.
TaskForkDone(pair) ==
    /\ pair \in tasks.forking
    /\ \A q \in Progs :
         trk[q].pc \in {"idle", "done"}
         \/ <<trk[q].ppid, trk[q].pid>> # pair
    /\ tasks' = [tasks EXCEPT !.forking = @ \ {pair}]
    /\ UNCHANGED <<processes, containers, runtimes, paths, trk, hist, last>>

\* p exits and the collaborator deletes its row; the pid is free again.
TaskExit(p) ==
    /\ p \in tasks.alive \ HostTasks
    /\ \A pair \in tasks.forking : p \notin {pair[1], pair[2]}
    /\ tasks' = [tasks EXCEPT !.alive = @ \ {p},
                              !.anc = [x \in TaskPids |->
                                         IF x = p THEN {} ELSE @[x] \ {p}],
                              !.lin[p] = {}]
    /\ IF HasRow(processes, p)
       THEN /\ processes' = MapDel(processes, p)
            /\ trk' = [q \in Progs |->
                         forget(proc_written(trk[q], p, 0, FALSE, TRUE))]
            /\ hist' = [q \in Progs |-> NoSnap]
       ELSE UNCHANGED <<processes, trk, hist>>
    /\ UNCHANGED <<containers, runtimes, paths, last>>

NextAncestry ==
    \/ \E c \in Cids, lvl \in LineageTiers : CollabRegisterContainer(c, lvl)
    \/ \E p \in TaskPids, c \in Cids : TaskRegisterInit(p, c)
    \/ \E parent \in TaskPids, child \in TaskPids : TaskFork(parent, child)
    \/ TaskTracker
    \/ \E pair \in TaskPids \X TaskPids : TaskForkDone(pair)
    \/ \E p \in TaskPids : TaskExit(p)

SpecAncestry == Init /\ [][NextAncestry]_vars

\* C21: lineage invariant (I2): every pid that has a processes row is a
\* living task, and the container of its row is one whose registered init is
\* this task or an ancestor of it.
C21_LineageInvariant ==
    \A p \in DOMAIN processes :
        /\ p \in tasks.alive
        /\ processes[p] \in tasks.lin[p]

\* The tracker has bound a grandchild of a registered init.
C21_Witness ==
    \E q \in Progs :
        /\ trk[q].pc = "done"
        /\ trk[q].inserted
        /\ HasRow(processes, trk[q].pid)
        /\ HasRow(processes, trk[q].ppid)
        /\ tasks.anc[trk[q].ppid] # {}
        /\ processes[trk[q].ppid] \notin tasks.lin[1]
        /\ processes[trk[q].pid] \in tasks.lin[trk[q].pid]

-----------------------------------------------------------------------------
\* C22: stacking of setuid_audit: invoked with a previous verdict that is not
\* 0, the program returns that verdict on every path, the failed read of the
\* command name included.
C22_SetuidStacking ==
    (last.hook = "setuid" /\ last.prev # 0) => last.ret = last.prev

\* What holds of setuid_audit: the previous verdict is returned whenever the
\* command name was read.
SetuidStackingWhenCommRead ==
    (last.hook = "setuid" /\ last.prev # 0 /\ last.in.comm_ok)
    => last.ret = last.prev

-----------------------------------------------------------------------------
\* C23: stacking of clone_audit: invoked with a previous verdict that is not
\* 0, the program returns that verdict on every path, a NULL parent and an
\* error of handle_new_process included.
C23_CloneStacking ==
    (trk["clone_audit"].pc = "done" /\ trk["clone_audit"].ret_prev # 0)
    => trk["clone_audit"].ret = trk["clone_audit"].ret_prev

\* What holds of clone_audit: with a parent that is not NULL the previous
\* verdict is returned, whatever handle_new_process returned and stored.
CloneStackingWhenParent ==
    (/\ trk["clone_audit"].pc = "done"
     /\ trk["clone_audit"].ret_prev # 0
     /\ trk["clone_audit"].ppid # NullTask)
    => trk["clone_audit"].ret = trk["clone_audit"].ret_prev

-----------------------------------------------------------------------------
\* The lineage programs while the collaborator fills and empties runtimes.
NextHostParent ==
    \/ NextLineage
    \/ CollabSetRuntime
    \/ CollabDelRuntime

SpecHostParent == Init /\ [][NextHostParent]_vars

\* C24: host parent: handle_new_process called for a parent that has no row
\* in processes returns 0 at once and leaves every map as it is, whatever the
\* child's pid, whether the child has a row, and whatever runtimes holds.
C24_HostParent ==
    [][\A prog \in Progs, parent \in Pids, child \in Pids, prev \in PrevVerdicts :
         (Start(prog, parent, child, prev) /\ ~HasRow(processes, parent))
         => /\ trk'[prog].pc = "done"
            /\ trk'[prog].hret = 0
            /\ UNCHANGED <<processes, containers, runtimes, paths>>]_vars

\* A host parent's fork was handled with runtimes filled and the child bound.
C24_Witness ==
    \E q \in Progs :
        /\ trk[q].pc = "done"
        /\ hist[q].valid
        /\ trk[q].ppid # NullTask
        /\ ~HasRow(hist[q].processes, trk[q].ppid)
        /\ HasRow(hist[q].processes, trk[q].pid)
        /\ runtimes # EmptyMap
        /\ trk[q].hret = 0

-----------------------------------------------------------------------------
\* The parent of the invocation had a row when it started, and the container
\* of that row had none.
InconsistentParent(q) ==
    /\ trk[q].pc = "done"
    /\ trk[q].pid # NullTask
    /\ hist[q].valid
    /\ HasRow(hist[q].processes, trk[q].ppid)
    /\ ~HasRow(hist[q].containers, hist[q].processes[trk[q].ppid])

\* C25: inconsistent state: an invocation for a parent that has a row whose
\* container has none returns an error and leaves processes as it was,
\* whether the child has a row or not.
C25_InconsistentState ==
    \A q \in Progs :
        InconsistentParent(q)
        => /\ trk[q].hret # 0
           /\ processes = hist[q].processes

\* What holds of handle_new_process: the error is returned when the child has
\* no row; processes is left as it was in either case.
InconsistentStateUnboundChild ==
    \A q \in Progs :
        InconsistentParent(q)
        => /\ processes = hist[q].processes
           /\ ~HasRow(hist[q].processes, trk[q].pid) => trk[q].hret = -EPERM
           /\ HasRow(hist[q].processes, trk[q].pid) => trk[q].hret = 0

-----------------------------------------------------------------------------
-----------------------------------------------------------------------------
\* A mount by a RESTRICTED or BASELINE pid, with no previous verdict.
PolicedMountCall ==
    /\ last.hook = "mount"
    /\ last.prev = 0
    /\ last.tier \in {POLICY_LEVEL_RESTRICTED, POLICY_LEVEL_BASELINE}

\* C27: mount with a NULL type: for a RESTRICTED or BASELINE pid and no
\* previous verdict, a mount whose type is NULL returns 0 whatever the source
\* (NULL included) and the allowlists are, and consults no path map.
C27_MountNullType ==
    (PolicedMountCall /\ last.in.type = NullPtr)
    => /\ last.ret = 0
       /\ last.consulted = <<>>

\* A mount with neither type nor source while the tier's allowlist has rows.
C27_Witness ==
    /\ PolicedMountCall
    /\ last.in.type = NullPtr
    /\ last.in.dev_name = NullPtr
    /\ paths[MountAllowlist(last.tier)] # <<>>
    /\ last.ret = 0

\* C28: mount buffer faults: for a RESTRICTED or BASELINE pid and no previous
\* verdict, mount_audit returns -EFAULT when the type cannot be read and, for a
\* bind mount, when the source is NULL or cannot be read; no path map is
\* consulted in these cases.
C28_MountFaults ==
    (/\ PolicedMountCall
     /\ \/ last.in.type = FaultPtr
        \/ last.in.type = StrPtr(STR_BIND) /\ last.in.dev_name \in {NullPtr, FaultPtr})
    => /\ last.ret = -EFAULT
       /\ last.consulted = <<>>

\* A bind mount with an unreadable source while an allowlist row would match
\* anything under "/a".
C28_Witness ==
    /\ PolicedMountCall
    /\ last.in.type = StrPtr(STR_BIND)
    /\ last.in.dev_name = FaultPtr
    /\ \E i \in 1..Len(paths[MountAllowlist(last.tier)]) :
         paths[MountAllowlist(last.tier)][i].path = Pad(STR_A, PATH_LEN)
    /\ last.ret = -EFAULT

-----------------------------------------------------------------------------
\* C29: open with an unresolvable path: for a RESTRICTED or BASELINE pid and no
\* previous verdict, when bpf_d_path cannot render the file's path into the
\* PATH_LEN bytes of the buffer (it fails, or the path with its NUL does not
\* fit), open_audit returns 0 and consults neither the deny nor the allow map.
C29_OpenUnresolvable ==
    (/\ last.hook = "open"
     /\ last.prev = 0
     /\ last.tier \in {POLICY_LEVEL_RESTRICTED, POLICY_LEVEL_BASELINE}
     /\ \/ last.in.file.kind # "str"
        \/ Len(last.in.file.s) + 1 > PATH_LEN)
    => /\ last.ret = 0
       /\ last.consulted = <<>>

\* A file under "/a/b" whose path is too long for the buffer is opened while
\* the deny map of the tier holds "/a/b".
C29_Witness ==
    /\ last.hook = "open"
    /\ last.prev = 0
    /\ last.tier \in {POLICY_LEVEL_RESTRICTED, POLICY_LEVEL_BASELINE}
    /\ last.in.file = StrPtr(STR_LONG)
    /\ \E i \in 1..Len(paths[IF last.tier = POLICY_LEVEL_RESTRICTED
                             THEN "dp_acc_restr" ELSE "dp_acc_base"]) :
         paths[IF last.tier = POLICY_LEVEL_RESTRICTED
               THEN "dp_acc_restr" ELSE "dp_acc_base"][i].path = Pad(STR_AB, PATH_LEN)
    /\ last.ret = 0

-----------------------------------------------------------------------------
(* The out label on its own: the modules stacked on one hook run in order, *)
(* each program being handed the value the one before it returned.          *)

MaxChain == 3

\* Verdicts a module computes: 0, -EPERM, -EACCES, -EFAULT, and a positive one.
Verdicts == {0, -EPERM, -13, -EFAULT, 7}

RECURSIVE ChainsOf(_)
ChainsOf(n) ==
    IF n = 0 THEN {<<>>}
    ELSE ChainsOf(n - 1)
         \cup {Append(c, v) : c \in {x \in ChainsOf(n - 1) : Len(x) = n - 1},
                              v \in Verdicts}

\* A chain of modules, given by the verdict each one computes, none run yet.
InitFold ==
    /\ processes = EmptyMap
    /\ containers = EmptyMap
    /\ runtimes = EmptyMap
    /\ paths = [t \in PathMaps |-> <<>>]
    /\ trk = [q \in Progs |-> Idle]
    /\ hist = [q \in Progs |-> NoSnap]
    /\ tasks = InitTasks
    /\ \E c \in ChainsOf(MaxChain) :
         last = [hook |-> "chain", in |-> c, k |-> 0, ret |-> 0]

\* The next module of the chain runs: it leaves through its out label with the
\* previous module's value as ret_prev and its own verdict as ret.
RunModule ==
    /\ last.k < Len(last.in)
    /\ last' = [last EXCEPT !.k = @ + 1,
                            !.ret = out(last.ret, last.in[last.k + 1])]
    /\ UNCHANGED <<tasks, processes, containers, runtimes, paths, trk, hist>>

NextFold == RunModule

SpecFold == InitFold /\ [][NextFold]_vars

\* The first verdict of s from position i on that is not 0, or 0.
RECURSIVE FirstNonZeroFrom(_, _)
FirstNonZeroFrom(s, i) ==
    IF i > Len(s) THEN 0
    ELSE IF s[i] # 0 THEN s[i]
    ELSE FirstNonZeroFrom(s, i + 1)

\* C30: the out label is a monoid on verdicts: out(0, a) = a, out(a, 0) = a,
\* out(out(a, b), c) = out(a, out(b, c)); the value a chain of modules hands
\* back is the first verdict of the chain that is not 0, or 0.
C30_FoldMonoid ==
    /\ last.ret = FirstNonZeroFrom(SubSeq(last.in, 1, last.k), 1)
    /\ \A a \in Verdicts, b \in Verdicts, c \in Verdicts :
         /\ out(0, a) = a
         /\ out(a, 0) = a
         /\ out(out(a, b), c) = out(a, out(b, c))

\* Three modules have run: the first allowed, the second denied with -EPERM,
\* the third with -EFAULT.
C30_Witness ==
    /\ last.hook = "chain"
    /\ last.in = <<0, -EPERM, -EFAULT>>
    /\ last.k = 3
    /\ last.ret = -EPERM

-----------------------------------------------------------------------------
\* An open by a BASELINE pid, with no previous verdict, of a file other than
\* "/" whose path begins with a non-empty entry of denied_paths_access_baseline.
DeniedOpenCall ==
    /\ last.hook = "open"
    /\ last.prev = 0
    /\ last.tier = POLICY_LEVEL_BASELINE
    /\ last.in.file.kind = "str"
    /\ last.in.file.s # STR_ROOT
    /\ PrefixOfString(dp_acc_base, last.in.file.s)

\* C34: the deny list cannot be bypassed by path length: an open by a BASELINE
\* pid of a file whose absolute path, of any length, begins with a non-empty
\* entry of denied_paths_access_baseline returns -EPERM.
C34_DenyListAnyLength ==
    DeniedOpenCall => last.ret = -EPERM

\* What holds of open_audit: the denied path is refused when it fits, with its
\* NUL, into the PATH_LEN bytes of the buffer.
DenyListWhenPathFits ==
    (DeniedOpenCall /\ Len(last.in.file.s) + 1 <= PATH_LEN)
    => last.ret = -EPERM

-----------------------------------------------------------------------------
\* C32: total tier match in mount_audit: an invocation that reaches the second
\* switch runs for a RESTRICTED or BASELINE pid and enters the arm of that
\* tier, never the label defaut and never past the switch with no case
\* entered; what it computes is 0, the allowlist of the tier having matched the
\* source read into the buffer, or -EPERM.
C32_TotalTierMatch ==
    (last.hook = "mount" /\ last.arm # "unreached")
    => /\ last.tier \in {POLICY_LEVEL_RESTRICTED, POLICY_LEVEL_BASELINE}
       /\ last.arm = (IF last.tier = POLICY_LEVEL_RESTRICTED
                      THEN "restricted" ELSE "baseline")
       /\ last.consulted = <<MountAllowlist(last.tier)>>
       /\ last.cur \in {0, -EPERM}
       /\ last.cur = 0 <=>
            PrefixLaw(paths[MountAllowlist(last.tier)],
                      bpf_probe_read_kernel_str(PATH_LEN, last.in.dev_name).buf)

\* A bind mount went through the second switch and was denied.
C32_Witness ==
    /\ last.hook = "mount"
    /\ last.arm = "baseline"
    /\ last.in.type = StrPtr(STR_BIND)
    /\ last.cur = -EPERM
    /\ last.ret = -EPERM

-----------------------------------------------------------------------------
(* Bounded execution.  The loops of the programs, one step per iteration:   *)
(* the iteration of bpf_for_each_map_elem over a path map, and the walk of  *)
(* dentry_full_path (part_000).  The initial state draws the program that   *)
(* runs and its input; last holds the state of the running loop.            *)

PATH_MAX == 4096

PATH_MAX_LIMIT == 128

\* Lengths of a dentry name (qstr.len, u32): none, one byte, NAME_MAX, one more
\* than the buffer holds, and the largest the model checker can add 1 to.
NameLens == {0, 1, 255, 4096, 2147483646}

MaxDepth == 2

\* d_parent of the dentry at depth d of a chain; the root is its own parent.
d_parent(d) == IF d = 0 THEN 0 ELSE d - 1

\* `*buf_size < 0` for a size_t: an unsigned value is never below 0.
size_t_below_zero(v) == FALSE

\* bpf_map_update_elem(&path_buffer, &buf_key, &p, 0) on the array map of
\* PATH_MAX entries: -E2BIG for an index outside the array.  A size_t that went
\* below 0 has wrapped; cut to u32 it is 2^32 + v, beyond the array for every
\* v > PATH_MAX - 2^32.
path_buffer_update(v) == IF v >= 0 /\ v < PATH_MAX THEN 0 ELSE -7

\* prepend_name(&buf_size, &dentry->d_name): the name has len bytes, the first
\* NUL among them at index nul (nul = len: none).  The inner loop stores the
\* bytes before the NUL at buf_key + 1, buf_key + 2, ... and stops at the first
\* store that fails.
prepend_name(buf_size, len, nul) ==
    LET size == buf_size - (len + 1)
        stored == IF nul < len THEN nul ELSE len
    IN IF size_t_below_zero(size) THEN [buf_size |-> size, err |-> -36]
       ELSE IF path_buffer_update(size) < 0
       THEN [buf_size |-> size, err |-> path_buffer_update(size)]
       ELSE IF stored > 0 /\ path_buffer_update(size + stored) < 0
       THEN [buf_size |-> size, err |-> path_buffer_update(size + stored)]
       ELSE [buf_size |-> size, err |-> 0]

\* One turn of the while (1) of dentry_full_path: the dentry read at the top
\* is the one the function was called with, which the loop never replaces by
\* its parent.
dentry_full_path_turn(w) ==
    LET parent == d_parent(w.dentry)
        r == prepend_name(w.buf_size, w.len, w.nul)
    IN IF w.dentry = parent THEN [w EXCEPT !.pc = "done"]
       ELSE IF r.err # 0
       THEN [w EXCEPT !.pc = "done", !.buf_size = r.buf_size, !.err = r.err,
                      !.turns = @ + 1]
       ELSE [w EXCEPT !.buf_size = r.buf_size, !.turns = @ + 1]

\* An iteration that goes on after the callback has returned 1.
for_each_turn_no_stop(it, map) ==
    IF it.i >= Len(map) THEN [it EXCEPT !.pc = "done"]
    ELSE [it EXCEPT !.i = @ + 1, !.visited = Append(@, it.i + 1),
                    !.found = @ \/ it.cb[it.i + 1] = 1]

\* One turn of bpf_for_each_map_elem: the callback is run on the next row; the
\* iteration is over when it returns 1 or when no row is left.  it.cb[j] is
\* what check_paths returns on row j for the probe of the iteration.
for_each_turn(it, map) ==
    IF it.i >= Len(map) THEN [it EXCEPT !.pc = "done"]
    ELSE IF it.cb[it.i + 1] = 1
    THEN [it EXCEPT !.pc = "done", !.i = @ + 1,
                    !.visited = Append(@, it.i + 1), !.found = TRUE]
    ELSE [it EXCEPT !.i = @ + 1, !.visited = Append(@, it.i + 1)]

InitBounded ==
    /\ runtimes = EmptyMap
    /\ trk = [q \in Progs |-> Idle]
    /\ hist = [q \in Progs |-> NoSnap]
    /\ tasks = InitTasks
    /\ \/ \* the lineage programs over a few contents of their maps
          /\ last = NoCall
          /\ paths = [t \in PathMaps |-> <<>>]
          /\ containers \in {EmptyMap, MapPut(EmptyMap, 1, POLICY_LEVEL_BASELINE)}
          /\ processes \in {EmptyMap, MapPut(EmptyMap, 1, 1),
                            MapPut(MapPut(EmptyMap, 1, 1), 2, 1)}
       \/ \* the path matcher over a table and a probe
          /\ processes = EmptyMap
          /\ containers = EmptyMap
          /\ \E T \in TablesOf(MaxRows), path \in ProbePool :
               /\ paths = [t \in PathMaps |-> IF t = "ap_mnt_restr" THEN T ELSE <<>>]
               /\ last = [hook |-> "for_each", pc |-> "loop", path |-> path,
                          cb |-> [j \in 1..Len(T) |-> check_paths(T[j], path)],
                          i |-> 0, found |-> FALSE, visited |-> <<>>]
       \/ \* the walk from a dentry of a chain
          /\ processes = EmptyMap
          /\ containers = EmptyMap
          /\ paths = [t \in PathMaps |-> <<>>]
          /\ \E d \in 0..MaxDepth, len \in NameLens :
             \E nul \in {0, 1, len} :
               /\ nul <= len
               /\ last = [hook |-> "walk", pc |-> "loop", dentry |-> d,
                          len |-> len, nul |-> nul, buf_size |-> PATH_MAX,
                          err |-> 0, turns |-> 0]

ForEachTurn ==
    /\ last.hook = "for_each"
    /\ last.pc = "loop"
    /\ last' = for_each_turn(last, ap_mnt_restr)
    /\ UNCHANGED <<tasks, processes, containers, runtimes, paths, trk, hist>>

DentryFullPathTurn ==
    /\ last.hook = "walk"
    /\ last.pc = "loop"
    /\ last' = dentry_full_path_turn(last)
    /\ UNCHANGED <<tasks, processes, containers, runtimes, paths, trk, hist>>

\* The steps of a lineage program that is running.
TrackerTurn(prog) ==
    /\ last = NoCall
    /\ \/ ChildLookup(prog)
       \/ ContainerLookup(prog)
       \/ Update(prog)

NextBounded ==
    \/ last = NoCall /\ Tracker
    \/ ForEachTurn
    \/ DentryFullPathTurn

\* A program that was started runs on: the kernel runs a BPF program to its
\* end without taking the CPU away for good.
SpecBounded ==
    /\ InitBounded
    /\ [][NextBounded]_vars
    /\ WF_vars(ForEachTurn)
    /\ WF_vars(DentryFullPathTurn)
    /\ \A prog \in Progs : WF_vars(TrackerTurn(prog))

\* The iteration has visited the rows 1, 2, ... once each, none after a match.
IterationBounded ==
    last.hook = "for_each" =>
        /\ Len(ap_mnt_restr) <= PATH_MAX_LIMIT
        /\ last.i <= Len(ap_mnt_restr)
        /\ last.visited = [j \in 1..last.i |-> j]
        /\ \A j \in 1..(last.i - 1) : check_paths(ap_mnt_restr[j], last.path) = 0
        /\ last.found => (/\ last.pc = "done"
                          /\ check_paths(ap_mnt_restr[last.i], last.path) = 1)
        /\ last.pc = "done" =>
             /\ last.found \/ last.i = Len(ap_mnt_restr)
             /\ bpf_for_each_map_elem(ap_mnt_restr, last.path)
                  = [found |-> last.found, visits |-> last.i]

\* C31: bounded execution: the iteration over a path map visits each row at
\* most once, in as many turns as the map has rows at most, and stops at the
\* first match; the iteration, the walk of dentry_full_path from any dentry of
\* a chain with a name of any length, and every invocation of the lineage
\* programs come to their end.
C31_BoundedExecution ==
    /\ []IterationBounded
    /\ (last.hook \in {"for_each", "walk"})
         ~> (last.hook \in {"for_each", "walk"} /\ last.pc = "done")
    /\ \A prog \in Progs :
         (trk[prog].pc \in {"L148", "L155", "L172"})
           ~> (trk[prog].pc \in {"idle", "done"})

\* The walk from a dentry that is not the root is over after 16 turns, the
\* last of which failed to store.
C31_Witness ==
    /\ last.hook = "walk"
    /\ last.pc = "done"
    /\ last.dentry = MaxDepth
    /\ last.len = 255
    /\ last.turns = 17
    /\ last.err < 0

-----------------------------------------------------------------------------
(* Tier isolation.  What a decision program returns for a pid is compared  *)
(* between two states of the maps: the state in which the verdicts were    *)
(* observed and every state user space reaches afterwards by storing and   *)
(* deleting rows outside the view of pid.  The maps take any row: a        *)
(* process row may name a container that has no row.                       *)

\* The path maps of a tier, by the names the programs use them under.
TierTables(policy_level) ==
    CASE policy_level = POLICY_LEVEL_RESTRICTED ->
           {"ap_mnt_restr", "ap_acc_restr", "dp_acc_restr"}
      [] policy_level = POLICY_LEVEL_BASELINE ->
           {"ap_mnt_base", "ap_acc_base", "dp_acc_base"}
      [] OTHER -> {}

\* What get_policy_level(pid) walks through, and the path maps of the tier it
\* ends at: the row of pid, the container row that row names, those maps.
ViewIn(procs, conts, tables, pid) ==
    LET bound == HasRow(procs, pid)
        container_id == IF bound THEN procs[pid] ELSE 0
        has == bound /\ HasRow(conts, container_id)
        policy_level == IF has THEN conts[container_id] ELSE 0
    IN [bound |-> bound, container_id |-> container_id, has |-> has,
        policy_level |-> policy_level,
        tables |-> [t \in PathMaps |->
                      IF has /\ t \in TierTables(policy_level) THEN tables[t] ELSE <<>>]]

View(pid) == ViewIn(processes, containers, paths, pid)

\* Nothing but the view of pid is stored.
Alone(pid) ==
    /\ runtimes = EmptyMap
    /\ DOMAIN processes \subseteq {pid}
    /\ DOMAIN containers \subseteq {View(pid).container_id}
    /\ \A t \in PathMaps : View(pid).tables[t] = paths[t]

\* The invocations compared: program, inputs, previous verdict.
IsolationCalls ==
    [hook : {"syslog"}, log : LogTypes, prev : PrevVerdicts]
    \cup [hook : {"mount"}, dev_name : {NullPtr, StrPtr(STR_AB), StrPtr(STR_B)},
          type : {NullPtr, StrPtr(STR_BIND), StrPtr(STR_TMPFS)}, prev : PrevVerdicts]
    \cup [hook : {"setuid"}, comm_ok : BOOLEAN, uid_new : {0}, uid_old : {0, 1000},
          prev : PrevVerdicts]
    \cup [hook : {"open"}, file : {StrPtr(STR_ROOT), StrPtr(STR_AB), StrPtr(STR_B)},
          prev : PrevVerdicts]

\* The value the program returns for the invocation c made for pid.
Verdict(pid, c) ==
    CASE c.hook = "syslog" -> syslog_audit(pid, c.log, c.prev).ret
      [] c.hook = "mount" -> mount_audit(pid, c.dev_name, c.type, c.prev).ret
      [] c.hook = "setuid" ->
           setuid_audit(pid, c.comm_ok, c.uid_new, c.uid_old, c.prev).ret
      [] c.hook = "open" -> open_audit(pid, c.file, c.prev).ret

\* Every compared invocation is made for pid and its verdict is kept, with the
\* view of pid it was made in.
Observe(pid) ==
    /\ last = NoCall
    /\ last' = [hook |-> "observed", pid |-> pid, view |-> View(pid),
                alone |-> Alone(pid),
                verdict |-> [c \in IsolationCalls |-> Verdict(pid, c)]]
    /\ UNCHANGED <<tasks, processes, containers, runtimes, paths, trk, hist>>

\* The observation after user space has written: it is kept for comparison
\* as long as the maps agree with it on the view, and dropped by a write that
\* changes the view.
Compared(procs, conts, tables) ==
    IF last.hook = "observed" /\ ViewIn(procs, conts, tables, last.pid) # last.view
    THEN NoCall
    ELSE last

StoreProcess(p, c) ==
    /\ processes' = MapPut(processes, p, c)
    /\ processes' # processes
    /\ last' = Compared(processes', containers, paths)
    /\ UNCHANGED <<tasks, containers, runtimes, paths, trk, hist>>

DeleteProcess(p) ==
    /\ HasRow(processes, p)
    /\ processes' = MapDel(processes, p)
    /\ last' = Compared(processes', containers, paths)
    /\ UNCHANGED <<tasks, containers, runtimes, paths, trk, hist>>

StoreContainer(c, lvl) ==
    /\ containers' = MapPut(containers, c, lvl)
    /\ containers' # containers
    /\ last' = Compared(processes, containers', paths)
    /\ UNCHANGED <<tasks, processes, runtimes, paths, trk, hist>>

DeleteContainer(c) ==
    /\ HasRow(containers, c)
    /\ containers' = MapDel(containers, c)
    /\ last' = Compared(processes, containers', paths)
    /\ UNCHANGED <<tasks, processes, runtimes, paths, trk, hist>>

StorePath(t) ==
    /\ paths[t] = <<>>
    /\ paths' = [paths EXCEPT ![t] = <<accessed_path(0, PoolPath(t))>>]
    /\ last' = Compared(processes, containers, paths')
    /\ UNCHANGED <<tasks, processes, containers, runtimes, trk, hist>>

DeletePath(t) ==
    /\ paths[t] # <<>>
    /\ paths' = [paths EXCEPT ![t] = <<>>]
    /\ last' = Compared(processes, containers, paths')
    /\ UNCHANGED <<tasks, processes, containers, runtimes, trk, hist>>

NextIsolation ==
    \/ \E pid \in HookPids : Observe(pid)
    \/ HookReturn
    \/ \E p \in Pids, c \in Cids : StoreProcess(p, c)
    \/ \E p \in Pids : DeleteProcess(p)
    \/ \E c \in Cids, lvl \in Tiers : StoreContainer(c, lvl)
    \/ \E c \in Cids : DeleteContainer(c)
    \/ \E t \in PathMaps : StorePath(t)
    \/ \E t \in PathMaps : DeletePath(t)
    \/ CollabSetRuntime
    \/ CollabDelRuntime

SpecIsolation == Init /\ [][NextIsolation]_vars

\* C33: tier isolation.  Two states of the maps that agree on processes[pid],
\* on the container row it names and on the path maps of that container's own
\* tier give the same verdict for every program invoked for pid with the same
\* inputs and previous verdict: the rows of other processes and containers,
\* the runtimes map and the path maps of the other tier have no influence.
C33_TierIsolation ==
    (last.hook = "observed" /\ View(last.pid) = last.view)
        => \A c \in IsolationCalls : Verdict(last.pid, c) = last.verdict[c]

\* Observed with nothing else stored; now another process, another container,
\* a runtime and every path map of the other tier are stored, and the
\* RESTRICTED caller's bind mount from /a/b is still allowed while /b, which
\* only the baseline allowlist holds, is still denied.
C33_Witness ==
    /\ last.hook = "observed"
    /\ last.alone
    /\ View(last.pid) = last.view
    /\ last.view.has
    /\ last.view.policy_level = POLICY_LEVEL_RESTRICTED
    /\ runtimes # EmptyMap
    /\ \E p \in DOMAIN processes : p # last.pid
    /\ \E c \in DOMAIN containers : c # last.view.container_id
    /\ \A t \in PathMaps : paths[t] # <<>>
    /\ Verdict(last.pid, [hook |-> "mount", dev_name |-> StrPtr(STR_AB),
                          type |-> StrPtr(STR_BIND), prev |-> 0]) = 0
    /\ Verdict(last.pid, [hook |-> "mount", dev_name |-> StrPtr(STR_B),
                          type |-> StrPtr(STR_BIND), prev |-> 0]) = -EPERM

====
